---- MODULE Spec2Model ----
(***************************************************************************)
(* A model of the Grace interpreter: the single-pass compiler              *)
(* (src/src/compiler.cpp), which turns a token stream into per-function    *)
(* op and constant lists, and the bytecode VM (src/src/vm.cpp), which      *)
(* links the functions into one image and executes it.                     *)
(*                                                                         *)
(* The compiler is modelled token by token, one operator per C++ method,   *)
(* threading the Compiler object as a record.  The VM is modelled as a     *)
(* state machine with one action per opcode of VM::Run.                    *)
(***************************************************************************)
EXTENDS Integers, Sequences, FiniteSets, TLC

\* Bounds of the model (not program constants).
MaxBody == 2        \* statements in the body of `main`
MaxSteps == 40      \* ops executed by one run of the VM

----------------------------------------------------------------------------
(* Tokens.  The scanner is outside the modelled sources: a program is the  *)
(* sequence of tokens it yields, followed by EndOfFile for ever.           *)

Tok(type, text, val) == [type |-> type, text |-> text, val |-> val]
NoToken == Tok("None", "", 0)
EofToken == Tok("EndOfFile", "", 0)

\* Integer literals of the inputs, by their text (std::stoll).
IntText == ("0" :> 0) @@ ("1" :> 1) @@ ("2" :> 2) @@ ("3" :> 3) @@ ("4" :> 4)
           @@ ("5" :> 5) @@ ("7" :> 7) @@ ("9" :> 9)

\* String literals of the inputs, interned by their text.
StrText == ("'boom'" :> 1) @@ ("'msg'" :> 2)

WordType == ("func" :> "Func") @@ ("end" :> "End") @@ ("var" :> "Var")
            @@ ("final" :> "Final") @@ ("if" :> "If") @@ ("else" :> "Else")
            @@ ("while" :> "While") @@ ("for" :> "For") @@ ("in" :> "In")
            @@ ("by" :> "By") @@ (".." :> "DotDot") @@ ("break" :> "Break")
            @@ ("assert" :> "Assert") @@ ("print" :> "Print")
            @@ ("println" :> "PrintLn") @@ ("return" :> "Return")
            @@ ("class" :> "Class") @@ ("this" :> "This") @@ ("null" :> "Null")
            @@ ("true" :> "True") @@ ("false" :> "False")
            @@ ("and" :> "And") @@ ("or" :> "Or")
            @@ ("instanceof" :> "InstanceOf") @@ ("int" :> "IntIdent")
            @@ ("bool" :> "BoolIdent") @@ ("string" :> "StringIdent")
            @@ ("float" :> "FloatIdent") @@ ("char" :> "CharIdent")
            @@ (":" :> "Colon") @@ (";" :> "Semicolon") @@ ("," :> "Comma")
            @@ ("(" :> "LeftParen") @@ (")" :> "RightParen") @@ ("." :> "Dot")
            @@ ("=" :> "Equal") @@ ("==" :> "EqualEqual") @@ ("!=" :> "BangEqual")
            @@ ("<" :> "LessThan") @@ (">" :> "GreaterThan")
            @@ ("<=" :> "LessEqual") @@ (">=" :> "GreaterEqual")
            @@ ("+" :> "Plus") @@ ("-" :> "Minus") @@ ("*" :> "Star")
            @@ ("/" :> "Slash") @@ ("%" :> "Mod") @@ ("**" :> "StarStar")
            @@ ("!" :> "Bang") @@ ("?" :> "Error")

\* The token the scanner yields for one word of source text.
Word(w) ==
  IF w \in DOMAIN WordType THEN Tok(WordType[w], w, 0)
  ELSE IF w \in DOMAIN IntText THEN Tok("Integer", w, IntText[w])
  ELSE IF w \in DOMAIN StrText THEN Tok("String", w, StrText[w])
  ELSE Tok("Identifier", w, 0)

Lex(ws) == [i \in 1..Len(ws) |-> Word(ws[i])]

----------------------------------------------------------------------------
(* Values: the tagged union of the VM.  The payload is always an integer   *)
(* (Bool: 0/1, String: the interned text, Null: 0).                        *)

IntV(n) == [t |-> "Int", v |-> n]
BoolV(b) == [t |-> "Bool", v |-> IF b THEN 1 ELSE 0]
StrV(i) == [t |-> "String", v |-> i]
NullV == [t |-> "Null", v |-> 0]

\* std::hash of a function name, taken to be collision free on the names used.
Hash(name) ==
  CASE name = "main" -> 1
    [] name = "file" -> 2
    [] name = "f" -> 3
    [] name = "g" -> 4
    [] name = "h" -> 5
    [] OTHER -> 6

AsBool(x) ==
  CASE x.t = "Null" -> FALSE
    [] x.t = "Bool" -> x.v = 1
    [] x.t = "Int" -> x.v # 0
    [] x.t = "String" -> x.v # 0
    [] OTHER -> FALSE

Last(s) == s[Len(s)]
Front(s) == SubSeq(s, 1, Len(s) - 1)

----------------------------------------------------------------------------
(* The Compiler object and the part of the VM it writes to.                *)

\* operands is the observer's note, for every op of the function, of where
\* in the function's constants the operands emitted for it begin.
Function(name, hash, arity) ==
  [name |-> name, hash |-> hash, arity |-> arity, ops |-> <<>>, consts |-> <<>>,
   operands |-> <<>>,
   opIndexStart |-> 0, constantIndexStart |-> 0, paramSlots |-> <<>>, blocks |-> {},
   holes |-> {}, breaks |-> {}, loops |-> {}, ifs |-> {}, whiles |-> {}]

\* Compiler::Compiler: the state after construction.
NewCompiler(toks) ==
  [tokens |-> toks, pos |-> 1, current |-> NoToken, previous |-> NoToken,
   context |-> "TopLevel", locals |-> <<>>,
   panicMode |-> FALSE, hadError |-> FALSE,
   shouldNotPopValue |-> FALSE, functionHadReturn |-> FALSE,
   breakJumpNeedsIndexes |-> FALSE, breakIdxPairs |-> <<>>,
   functionList |-> <<>>, lastFunction |-> 0,
   diagnostics |-> <<>>, crashed |-> FALSE, hung |-> FALSE,
   finalTargets |-> 0, finalAssigns |-> 0,
   loopIds |-> <<>>, loopCount |-> 0, listIds |-> <<>>, loopLog |-> {},
   breakLog |-> {}, topLevelLog |-> {},
   duplicateLog |-> {},
   errorLog |-> [windows |-> 0, panicSites |-> 0, panicPrinted |-> 0],
   syncLog |-> {}, callMarks |-> <<>>, callLog |-> {},
   expressionLog |-> {}, stalled |-> FALSE, returnLog |-> {}]

\* A Message that prints an error in panic mode as well.
MessageUnlatched(c, message, level) ==
  IF level = "Error"
  THEN [c EXCEPT !.panicMode = TRUE, !.hadError = TRUE,
                 !.diagnostics = Append(@, message)]
  ELSE [c EXCEPT !.diagnostics = Append(@, message)]

\* Compiler::Message.  An error raised in panic mode is dropped; a reported
\* error arms panic mode and sets the had-error flag.
Message(c, message, level) ==
  IF level = "Error" /\ c.panicMode THEN c
  ELSE IF level = "Error"
       THEN [c EXCEPT !.panicMode = TRUE, !.hadError = TRUE,
                      !.diagnostics = Append(@, message)]
       ELSE [c EXCEPT !.diagnostics = Append(@, message)]

\* The observer of the error sites (c is the Compiler at the site, d after
\* Message): the panic windows opened, the error sites reached while panic
\* mode was set, and the diagnostics printed at such sites.
LogMessage(c, d, level) ==
  IF level # "Error" THEN d
  ELSE [d EXCEPT !.errorLog =
          [windows |-> @.windows + (IF ~c.panicMode /\ d.panicMode THEN 1 ELSE 0),
           panicSites |-> @.panicSites + (IF c.panicMode THEN 1 ELSE 0),
           panicPrinted |-> @.panicPrinted +
                            (IF c.panicMode /\ d.diagnostics # c.diagnostics
                             THEN 1 ELSE 0)]]

MessageAtCurrent(c, message, level) == LogMessage(c, Message(c, message, level), level)
MessageAtPrevious(c, message, level) == LogMessage(c, Message(c, message, level), level)

ScanToken(c) == IF c.pos <= Len(c.tokens) THEN c.tokens[c.pos] ELSE EofToken

\* Compiler::Advance
Advance(c) ==
  LET c1 == [c EXCEPT !.previous = c.current, !.current = ScanToken(c),
                      !.pos = IF c.pos <= Len(c.tokens) THEN c.pos + 1 ELSE c.pos]
  IN IF c1.current.type = "Error"
     THEN MessageAtCurrent(c1, "Unexpected token", "Error")
     ELSE c1

\* Compiler::Check.  Compiler::Match(t) is "IF Check(c, t) THEN ... Advance(c)".
Check(c, type) == c.current.type = type

\* Compiler::Consume
Consume(c, expected, message) ==
  IF c.current.type = expected THEN Advance(c)
  ELSE MessageAtCurrent(c, message, "Error")

SyncKeywords == {"Class", "Func", "Final", "For", "If", "While", "Print",
                 "PrintLn", "Return", "Var"}

\* Compiler::Synchronize
RECURSIVE SynchronizeLoop(_)
SynchronizeLoop(c) ==
  IF c.current.type = "EndOfFile" THEN c
  ELSE IF c.previous.type = "Semicolon" THEN c
  ELSE IF c.current.type \in SyncKeywords THEN c
  ELSE SynchronizeLoop(Advance(c))

Synchronize(c) == SynchronizeLoop([c EXCEPT !.panicMode = FALSE])

\* IsKeyword (compiler.cpp)
IsKeyword(type) ==
  type \in {"And", "Class", "End", "Final", "For", "Func", "If", "Or", "Print",
            "PrintLn", "Return", "Var", "While"}

\* IsOperator (compiler.cpp)
IsOperator(type) ==
  type \in {"Colon", "Semicolon", "RightParen", "Comma", "Dot", "Plus", "Slash",
            "Star", "StarStar", "BangEqual", "Equal", "EqualEqual", "LessThan",
            "GreaterThan", "LessEqual", "GreaterEqual"}

\* IsLiteral (compiler.cpp)
IsLiteral(type) ==
  type \in {"True", "False", "Integer", "Double", "String", "Char"}

\* IsTypeIdent (compiler.cpp)
IsTypeIdent(type) ==
  type \in {"IntIdent", "FloatIdent", "BoolIdent", "StringIdent", "CharIdent"}

\* VM::PushOp, VM::PushConstant, VM::GetNumOps, VM::GetNumConstants,
\* VM::SetConstantAtIndex and VM::GetLastFunctionName act on the function
\* added last.  With no function added yet the lookup throws.
\* The number of constants an op is declared to pull.
OperandCount(op) ==
  CASE op \in {"LoadConstant", "LoadLocal", "AssignLocal", "AssertWithMessage"} -> 1
    [] op \in {"Jump", "JumpIfFalse", "Call"} -> 2
    [] OTHER -> 0

EmitOp(c, op) ==
  [c EXCEPT !.crashed = @ \/ c.lastFunction = 0,
            !.functionList =
               IF c.lastFunction = 0 THEN @
               ELSE [@ EXCEPT ![c.lastFunction].ops = Append(@, op),
                              ![c.lastFunction].operands =
                                 Append(@, Len(c.functionList[c.lastFunction].consts)
                                           - OperandCount(op))]]

EmitConstant(c, value) ==
  [c EXCEPT !.crashed = @ \/ c.lastFunction = 0,
            !.functionList = IF c.lastFunction = 0 THEN @
                             ELSE [@ EXCEPT ![c.lastFunction].consts = Append(@, value)]]

\* EmitOp(Ops::LoadConstant) with EmitConstant(value) behind it, as Primary
\* emits a literal: the operand of the op is the constant that follows.
EmitLiteral(c, value) ==
  [c EXCEPT !.crashed = @ \/ c.lastFunction = 0,
            !.functionList =
               IF c.lastFunction = 0 THEN @
               ELSE [@ EXCEPT ![c.lastFunction].ops = Append(@, "LoadConstant"),
                              ![c.lastFunction].operands =
                                 Append(@, Len(c.functionList[c.lastFunction].consts)),
                              ![c.lastFunction].consts = Append(@, value)]]

GetNumOps(c) ==
  IF c.lastFunction = 0 THEN 0 ELSE Len(c.functionList[c.lastFunction].ops)

GetNumConstants(c) ==
  IF c.lastFunction = 0 THEN 0 ELSE Len(c.functionList[c.lastFunction].consts)

\* A jump whose target is patched later gets std::int64_t{} for a constant;
\* holes are the indexes of those not overwritten yet (an observer of the
\* constant list, not a field of Function).
SetConstantAtIndex(c, index, value) ==
  IF c.lastFunction = 0 \/ index + 1 > GetNumConstants(c)
  THEN [c EXCEPT !.crashed = TRUE]
  ELSE [c EXCEPT !.functionList[c.lastFunction].consts[index + 1] = value,
                 !.functionList[c.lastFunction].holes = @ \ {index}]

EmitPlaceholder(c) ==
  IF c.lastFunction = 0 THEN [c EXCEPT !.crashed = TRUE]
  ELSE [EmitConstant(c, IntV(0))
          EXCEPT !.functionList[c.lastFunction].holes = @ \cup {GetNumConstants(c)}]

GetLastFunctionName(c) ==
  IF c.lastFunction = 0 THEN "" ELSE c.functionList[c.lastFunction].name

\* VM::AddFunction: try_emplace by hash.
HasFunction(c, hash) == \E i \in 1..Len(c.functionList) : c.functionList[i].hash = hash

\* An AddFunction that registers the function whatever the table holds.
AddFunctionOverwriting(c, name, arity) ==
  [c EXCEPT !.functionList = Append(@, Function(name, Hash(name), arity)),
            !.lastFunction = Len(c.functionList) + 1]

AddFunction(c, name, arity) ==
  IF HasFunction(c, Hash(name)) THEN c
  ELSE [c EXCEPT !.functionList = Append(@, Function(name, Hash(name), arity)),
                 !.lastFunction = Len(c.functionList) + 1]

\* m_Locals: name -> (is-final, slot-id).  std::map::insert keeps an old entry.
LocalsInsert(locals, name, final, id) ==
  IF name \in DOMAIN locals THEN locals
  ELSE (name :> [final |-> final, id |-> id]) @@ locals

LocalsSize(locals) == Cardinality(DOMAIN locals)

----------------------------------------------------------------------------
(* The recursive-descent compiler.  Every operator takes the Compiler      *)
(* record and returns it as the C++ method leaves it.                      *)

RECURSIVE Declaration(_), Statement(_), FuncDeclaration(_), FuncParams(_, _),
          FuncBody(_), Expression(_, _), ExpressionTail(_), ForStatement(_),
          ForBody(_), IfStatement(_), IfLoop(_, _), WhileStatement(_),
          WhileBody(_), Or(_, _, _), OrLoop(_, _, _), And(_, _, _),
          AndLoop(_, _, _), Equality(_, _, _), EqualityOperand(_, _, _),
          Comparison(_, _, _), ComparisonOperand(_, _, _), Term(_, _, _),
          TermLoop(_, _, _), Factor(_, _, _), FactorLoop(_, _, _), Unary(_, _),
          Call(_, _),
          CallArgs(_, _), Primary(_, _), InstanceOf(_), Cast(_)

\* EmitOp for the operator that preceded an operand; "None" before the
\* first operand.
EmitPending(c, pending) == IF pending = "None" THEN c ELSE EmitOp(c, pending)

\* Compiler::Or.  Or compiles one operand; OrLoop emits the op pending for
\* it, then makes the `while (Match(Or))` test.  Or(canAssign, true), which
\* skips the first operand, is OrLoop with nothing pending; so it is for
\* the methods below.
OrLoop(c1, canAssign, pending) ==
  IF c1.current.type = "Or"
  THEN Or(Advance(EmitPending(c1, pending)), canAssign, "Or")
  ELSE EmitPending(c1, pending)

Or(c, canAssign, pending) == OrLoop(And(c, canAssign, "None"), canAssign, pending)

\* Compiler::And
AndLoop(c1, canAssign, pending) ==
  IF c1.current.type = "And"
  THEN And(Advance(EmitPending(c1, pending)), canAssign, "And")
  ELSE EmitPending(c1, pending)

And(c, canAssign, pending) == AndLoop(Equality(c, canAssign, "None"), canAssign, pending)

\* Compiler::Equality: at most one operator, so the operand after it ends
\* the method.
EqualityOp(c) ==
  IF Check(c, "EqualEqual") THEN "Equal"
  ELSE IF Check(c, "BangEqual") THEN "NotEqual" ELSE "None"

EqualityOperand(c1, canAssign, pending) ==
  IF c1.current.type \notin {"EqualEqual", "BangEqual"} \/ pending # "None"
  THEN EmitPending(c1, pending)
  ELSE Equality(Advance(c1), canAssign, EqualityOp(c1))

Equality(c, canAssign, pending) ==
  EqualityOperand(Comparison(c, canAssign, "None"), canAssign, pending)

\* Compiler::Comparison
ComparisonOp(c) ==
  IF Check(c, "GreaterThan") THEN "Greater"
  ELSE IF Check(c, "GreaterEqual") THEN "GreaterEqual"
  ELSE IF Check(c, "LessThan") THEN "Less"
  ELSE IF Check(c, "LessEqual") THEN "LessEqual" ELSE "None"

ComparisonOperand(c1, canAssign, pending) ==
  IF c1.current.type \notin {"GreaterThan", "GreaterEqual", "LessThan", "LessEqual"}
     \/ pending # "None"
  THEN EmitPending(c1, pending)
  ELSE Comparison(Advance(c1), canAssign, ComparisonOp(c1))

Comparison(c, canAssign, pending) ==
  ComparisonOperand(Term(c, canAssign, "None"), canAssign, pending)

\* Compiler::Term
TermOp(c) ==
  IF Check(c, "Minus") THEN "Subtract"
  ELSE IF Check(c, "Plus") THEN "Add" ELSE "None"

TermLoop(c1, canAssign, pending) ==
  IF c1.current.type \notin {"Minus", "Plus"} THEN EmitPending(c1, pending)
  ELSE Term(Advance(EmitPending(c1, pending)), canAssign, TermOp(c1))

Term(c, canAssign, pending) == TermLoop(Factor(c, canAssign, "None"), canAssign, pending)

\* Compiler::Factor
FactorOp(c) ==
  IF Check(c, "StarStar") THEN "Pow"
  ELSE IF Check(c, "Star") THEN "Multiply"
  ELSE IF Check(c, "Slash") THEN "Divide"
  ELSE IF Check(c, "Mod") THEN "Mod" ELSE "None"

FactorLoop(c1, canAssign, pending) ==
  IF c1.current.type \notin {"StarStar", "Star", "Slash", "Mod"}
  THEN EmitPending(c1, pending)
  ELSE Factor(Advance(EmitPending(c1, pending)), canAssign, FactorOp(c1))

Factor(c, canAssign, pending) == FactorLoop(Unary(c, canAssign), canAssign, pending)

\* Compiler::Unary
Unary(c, canAssign) ==
  CASE Check(c, "Bang") -> EmitOp(Unary(Advance(c), canAssign), "Not")
    [] Check(c, "Minus") -> EmitOp(Unary(Advance(c), canAssign), "Negate")
    [] OTHER -> Call(c, canAssign)

\* The argument loop of Compiler::Call: [c, numArgs].
CallArgsRest(c1, numArgs) ==
  IF c1.crashed THEN [c |-> c1, numArgs |-> numArgs + 1]
  ELSE IF Check(c1, "RightParen")
  THEN [c |-> Advance(c1), numArgs |-> numArgs + 1]
  ELSE CallArgs(Consume(c1, "Comma", "Expected ',' after funcion call argument"),
                numArgs + 1)

CallArgs(c, numArgs) == CallArgsRest(Expression(c, FALSE), numArgs)

\* The tokens of the binary and unary operators.
OperatorTokens ==
  {"Plus", "Minus", "Star", "StarStar", "Slash", "Mod", "EqualEqual", "BangEqual",
   "LessThan", "GreaterThan", "LessEqual", "GreaterEqual", "And", "Or", "Bang"}

\* The observer of the calls in the source.  EnterCall: the `(` of a call is
\* matched; the mark says whether the token in front of the callee is an
\* operator.  The calls whose arguments are being compiled are the marks.
EnterCall(c1) ==
  [Advance(c1) EXCEPT !.callMarks =
     Append(@, c1.pos >= 3 /\ c1.pos - 3 \in DOMAIN c1.tokens
               /\ c1.tokens[c1.pos - 3].type \in OperatorTokens)]

\* LogCall: the call has been compiled (c is the Compiler behind its `)`, d
\* after the Call op and what follows it).  nested: it is an argument of
\* another call; operand: an operator stands in front of it or behind it;
\* context: it is in the expression of an initialiser, an assignment, a
\* condition, print, return or assert; popped: a Pop follows its Call op.
LogCall(c, d) ==
  IF c.callMarks = <<>> \/ d.lastFunction = 0 THEN d
  ELSE [d EXCEPT !.callMarks = Front(@),
                 !.callLog = @ \cup
                   {[nested |-> Len(c.callMarks) > 1,
                     operand |-> (Last(c.callMarks)
                                  \/ c.current.type \in OperatorTokens),
                     context |-> c.shouldNotPopValue,
                     popped |-> Last(d.functionList[d.lastFunction].ops) = "Pop"]}]

\* The call branch of Compiler::Call: r is [c, numArgs] after the arguments.
CallEmit(r, prevText) ==
  LET c3 == EmitOp(EmitConstant(EmitConstant(r.c, IntV(Hash(prevText))),
                                IntV(r.numArgs)), "Call")
  IN LogCall(r.c, IF ~r.c.shouldNotPopValue THEN EmitOp(c3, "Pop") ELSE c3)

\* Compiler::Call, after Primary has run.
CallRest(c1, canAssign) ==
  LET prevText == c1.previous.text
  IN IF c1.previous.type # "Identifier"
     THEN IF Check(c1, "LeftParen")
          THEN MessageAtCurrent(c1, "'(' only allowed after functions and classes",
                                "Error")
          ELSE c1
     ELSE IF Check(c1, "LeftParen")
     THEN CallEmit(IF Check(Advance(c1), "RightParen")
                   THEN [c |-> Advance(EnterCall(c1)), numArgs |-> 0]
                   ELSE CallArgs(EnterCall(c1), 0),
                   prevText)
     ELSE IF Check(c1, "Dot") THEN Advance(c1)
     ELSE IF ~Check(c1, "Equal")
     THEN IF prevText \notin DOMAIN c1.locals
          THEN MessageAtPrevious(c1, "Cannot find variable in this scope", "Error")
          ELSE EmitOp(EmitConstant(c1, IntV(c1.locals[prevText].id)), "LoadLocal")
     ELSE c1

\* Compiler::Call
Call(c, canAssign) == CallRest(Primary(c, canAssign), canAssign)

\* Compiler::Primary.  A token that starts no primary falls through to
\* Expression; when that token is neither an operator, a keyword nor an
\* identifier, Expression comes back here with nothing consumed and the
\* recursion never ends (the stack overflows).
Primary(c, canAssign) ==
  LET t == c.current.type
  IN CASE t = "True" -> EmitLiteral(Advance(c), BoolV(TRUE))
       [] t = "False" -> EmitLiteral(Advance(c), BoolV(FALSE))
       [] t = "This" -> Advance(c)
       [] t = "Integer" ->
            EmitLiteral(Advance(c), IntV(c.current.val))
       [] t = "String" ->
            EmitLiteral(Advance(c), StrV(c.current.val))
       [] t = "Identifier" -> Advance(c)
       [] t = "Null" -> EmitOp(EmitConstant(Advance(c), NullV), "LoadConstant")
       [] t = "LeftParen" ->
            Consume(Expression(Advance(c), canAssign), "RightParen", "Expected ')'")
       [] t = "InstanceOf" -> InstanceOf(Advance(c))
       [] IsTypeIdent(t) -> Cast(c)
       [] OTHER ->
            IF IsOperator(t) \/ IsKeyword(t) THEN Expression(c, canAssign)
            ELSE [c EXCEPT !.crashed = TRUE]

InstanceOfTag(t) ==
  CASE t = "BoolIdent" -> 0 [] t = "CharIdent" -> 1 [] t = "FloatIdent" -> 2
    [] t = "IntIdent" -> 3 [] t = "Null" -> 4 [] t = "StringIdent" -> 5
    [] OTHER -> 0 - 1

\* Compiler::InstanceOf, after the expression and the comma.
InstanceOfRest(c2) ==
  IF InstanceOfTag(c2.current.type) < 0
  THEN MessageAtCurrent(c2, "Expected type as second argument for instanceof", "Error")
  ELSE LET c4 == Consume(Advance(EmitOp(EmitConstant(c2,
                                 IntV(InstanceOfTag(c2.current.type))), "CheckType")),
                         "RightParen", "Expected ')'")
       IN IF ~c2.shouldNotPopValue THEN EmitOp(c4, "Pop") ELSE c4

\* Compiler::InstanceOf
InstanceOf(c) ==
  InstanceOfRest(
    Consume(Expression(Consume(c, "LeftParen", "Expected '(' after 'instanceof'"),
                       FALSE),
            "Comma", "Expected ',' after expression"))

CastOp(type) ==
  CASE type = "IntIdent" -> "CastAsInt" [] type = "FloatIdent" -> "CastAsFloat"
    [] type = "BoolIdent" -> "CastAsBool" [] type = "StringIdent" -> "CastAsString"
    [] OTHER -> "CastAsChar"

\* Compiler::Cast, after the closing parenthesis.
CastRest(c3) == IF ~c3.shouldNotPopValue THEN EmitOp(c3, "Pop") ELSE c3

\* Compiler::Cast
Cast(c) ==
  CastRest(Consume(EmitOp(Expression(Consume(Advance(c), "LeftParen",
                                             "Expected '(' after type ident"),
                                     FALSE),
                          CastOp(c.current.type)),
                   "RightParen", "Expected ')' after expression"))

\* The operator loop of Compiler::Expression, entered after a leading
\* identifier has been compiled by Call.
ExpressionTail(c) ==
  IF c.crashed THEN c ELSE
  LET t == c.current.type
  IN CASE t = "And" -> ExpressionTail(AndLoop(c, FALSE, "None"))
       [] t = "Or" -> ExpressionTail(OrLoop(c, FALSE, "None"))
       [] t \in {"EqualEqual", "BangEqual"} -> ExpressionTail(EqualityOperand(c, FALSE, "None"))
       [] t \in {"GreaterThan", "GreaterEqual", "LessThan", "LessEqual"} ->
            ExpressionTail(ComparisonOperand(c, FALSE, "None"))
       [] t \in {"Plus", "Minus"} -> ExpressionTail(TermLoop(c, FALSE, "None"))
       [] t \in {"Star", "StarStar", "Slash", "Mod"} ->
            ExpressionTail(FactorLoop(c, FALSE, "None"))
       [] t \in {"Semicolon", "RightParen", "Comma", "Colon"} -> c
       [] OTHER -> Advance(MessageAtCurrent(c, "Invalid token found in expression",
                                            "Error"))

\* m_ShouldNotPopValue = true / false around a nested Expression.
Latch(c) == [c EXCEPT !.shouldNotPopValue = TRUE]
Unlatch(c) == [c EXCEPT !.shouldNotPopValue = FALSE]

\* A compiler that takes no local for final.
IsFinalLocalNever(c, localName) == FALSE

\* m_Locals.at(localName).first: whether the local was declared final.
IsFinalLocal(c, localName) == c.locals[localName].final

\* finalAssigns counts the assignments and loops compiled into AssignLocal
\* ops although their target is final (an observer of the output, not a
\* field of Compiler).
CountFinalAssign(c, localName) ==
  IF c.locals[localName].final THEN [c EXCEPT !.finalAssigns = @ + 1] ELSE c

\* The end of the assignment branch: the slot constant and AssignLocal.
EmitAssign(c4, localName) ==
  IF c4.crashed THEN c4
  ELSE IF localName \notin DOMAIN c4.locals THEN [c4 EXCEPT !.crashed = TRUE]
  ELSE EmitOp(EmitConstant(CountFinalAssign(Unlatch(c4), localName),
                           IntV(c4.locals[localName].id)),
              "AssignLocal")

\* The assignment branch of Compiler::Expression: the current token is `=`.
ExpressionAssign(c, canAssign) ==
  LET localName == c.previous.text
  IN IF c.previous.type # "Identifier"
     THEN MessageAtCurrent(c, "Only identifiers can be assigned to", "Error")
     ELSE IF localName \notin DOMAIN c.locals
     THEN MessageAtPrevious(c, "Cannot find variable in this scope", "Error")
     ELSE IF IsFinalLocal(c, localName)
     THEN MessageAtPrevious(c, "Cannot reassign to final", "Error")
     ELSE IF ~canAssign
     THEN MessageAtCurrent(Advance(c), "Assignment is not valid in the current context",
                           "Error")
     ELSE EmitAssign(Expression(Latch(Advance(c)), FALSE), localName)

\* finalTargets counts the assignments and loop headers whose target is a
\* final local (an observer of the input, not a field of Compiler).
CountFinalTarget(c) ==
  IF /\ c.previous.type = "Identifier"
     /\ c.previous.text \in DOMAIN c.locals
     /\ c.locals[c.previous.text].final
  THEN [c EXCEPT !.finalTargets = @ + 1]
  ELSE c

\* Compiler::Expression, after Call has compiled a leading identifier.
ExpressionRest(c1, canAssign) ==
  IF Check(c1, "Equal") THEN ExpressionAssign(CountFinalTarget(c1), canAssign)
  ELSE ExpressionTail(c1)

\* Compiler::Expression
Expression(c, canAssign) ==
  CASE IsOperator(c.current.type) ->
         Advance(MessageAtCurrent(c, "Expected identifier or literal at start of expression",
                                  "Error"))
    [] IsKeyword(c.current.type) ->
         Advance(MessageAtCurrent(c, "keyword not valid in this context", "Error"))
    [] Check(c, "Identifier") -> ExpressionRest(Call(c, canAssign), canAssign)
    [] OTHER -> Or(c, canAssign, "None")

\* The end of a block: one PopLocal per local added since the block began,
\* each erased from m_Locals.
RECURSIVE EmitPopLocals(_, _)
EmitPopLocals(c, n) == IF n = 0 THEN c ELSE EmitPopLocals(EmitOp(c, "PopLocal"), n - 1)

PopNewLocals(c, startLocalsList) ==
  [EmitPopLocals(c, Cardinality(DOMAIN c.locals \ startLocalsList))
     EXCEPT !.locals = [n \in DOMAIN c.locals \cap startLocalsList |-> c.locals[n]]]

\* Patches every break jump of the innermost loop to (numConstants, numOps).
RECURSIVE PatchBreaks(_, _, _, _)
PatchBreaks(c, pairs, numConstants, numOps) ==
  IF pairs = <<>> THEN c
  ELSE PatchBreaks(
         SetConstantAtIndex(SetConstantAtIndex(c, pairs[1][1], IntV(numConstants)),
                            pairs[1][2], IntV(numOps)),
         Tail(pairs), numConstants, numOps)

\* The tail shared by ForStatement and WhileStatement: patch and pop the
\* break list when m_BreakJumpNeedsIndexes is set.
LoopPatchBreaks(c, numConstants, numOps) ==
  IF c.breakJumpNeedsIndexes
  THEN IF c.breakIdxPairs = <<>> THEN [c EXCEPT !.crashed = TRUE]
       ELSE [PatchBreaks(c, Last(c.breakIdxPairs), numConstants, numOps)
               EXCEPT !.breakJumpNeedsIndexes = (c.breakIdxPairs # <<>>),
                      !.breakIdxPairs = Front(@), !.listIds = Front(@)]
  ELSE c

\* A block statement (if, while, for) that began at op `entry` of the
\* function being compiled and ends here (an observer of the output).
RecordBlock(c, entry) ==
  IF c.lastFunction = 0 THEN c
  ELSE [c EXCEPT !.functionList[c.lastFunction].blocks =
                    @ \cup {[entry |-> entry, exit |-> GetNumOps(c)]}]

\* One Declaration() of a body loop.  A call that changes nothing but the
\* diagnostics repeats for ever: the compiler hangs.
SameButDiagnostics(c, d) ==
  [d EXCEPT !.diagnostics = c.diagnostics, !.errorLog = c.errorLog,
            !.syncLog = c.syncLog, !.expressionLog = c.expressionLog,
            !.returnLog = c.returnLog] = c

MarkHung(c, c1) ==
  [c1 EXCEPT !.hung = @ \/ SameButDiagnostics(c, c1),
             !.stalled = @ \/ (~c1.crashed /\ c1.pos = c.pos
                               /\ c.current.type # "EndOfFile")]

BodyDeclaration(c) == MarkHung(c, Declaration(c))

Stopped(c) == c.crashed \/ c.hung

\* The loops that lexically enclose the token being compiled, innermost
\* last, within the function being declared (an observer of the input, not
\* a field of Compiler; the Compiler has m_CurrentContext and
\* m_BreakIdxPairs).  Every loop gets a number of its own; listIds names,
\* for each list of m_BreakIdxPairs, the loop that pushed it.
InLoopBody(c) == c.loopIds # <<>>
InnermostLoop(c) == IF InLoopBody(c) THEN Last(c.loopIds) ELSE 0

\* The first lines of ForStatement and WhileStatement.
EnterLoop(c) ==
  [c EXCEPT !.context = "Loop", !.breakIdxPairs = Append(@, <<>>),
            !.loopCount = @ + 1, !.loopIds = Append(@, c.loopCount + 1),
            !.listIds = Append(@, c.loopCount + 1)]

\* The observer's note of one `break`: where it stood, what the compiler
\* did with it (d is the Compiler after it), and for an accepted one the
\* place of its Jump in the op list of the function.
LogBreak(c, d, accepted) ==
  LET d1 == [d EXCEPT !.breakLog = @ \cup
                        {[inLoop |-> InLoopBody(c), accepted |-> accepted,
                          error |-> d.hadError,
                          silent |-> (GetNumOps(d) = GetNumOps(c)
                                      /\ GetNumConstants(d) = GetNumConstants(c))]}]
  IN IF accepted /\ c.lastFunction # 0
     THEN [d1 EXCEPT !.functionList[c.lastFunction].breaks =
                        @ \cup {[op |-> GetNumOps(c), loop |-> InnermostLoop(c),
                                 list |-> Last(c.listIds)]}]
     ELSE d1

\* m_CurrentContext == Context::Loop
BreakAllowed(c) == c.context = "Loop"

\* The `break` branch of Compiler::Declaration.
BreakDeclaration(c) ==
  IF ~BreakAllowed(c)
  THEN LogBreak(c, MessageAtPrevious(c, "break only allowed inside for and while loops",
                                     "Error"),
                FALSE)
  ELSE IF c.breakIdxPairs = <<>> \/ c.lastFunction = 0 THEN [c EXCEPT !.crashed = TRUE]
  ELSE LogBreak(c,
         Consume([EmitOp(EmitPlaceholder(EmitPlaceholder(c)), "Jump")
                    EXCEPT !.breakJumpNeedsIndexes = TRUE,
                           !.breakIdxPairs[Len(c.breakIdxPairs)] =
                              Append(@, <<GetNumConstants(c), GetNumConstants(c) + 1>>)],
                 "Semicolon", "Expected ';' after break"),
         TRUE)

\* The `assert` branch of Compiler::Declaration, after the condition.
AssertRest(c3) ==
  LET d1 == Consume(Advance(c3), "String", "Expected message")
  IN Consume(IF Check(c3, "Comma")
             THEN Consume(EmitOp(EmitConstant(d1, StrV(d1.previous.val)),
                                 "AssertWithMessage"),
                          "RightParen", "Expected ')'")
             ELSE Consume(EmitOp(c3, "Assert"), "RightParen", "Expected ')'"),
             "Semicolon", "Expected ';' after assert expression")

\* The `assert` branch of Compiler::Declaration.
AssertDeclaration(c) ==
  LET AfterCondition(c2) == IF c2.crashed THEN c2 ELSE AssertRest(Unlatch(c2))
  IN AfterCondition(Expression(Latch(Consume(c, "LeftParen",
                                             "Expected '(' after assert")),
                               FALSE))

\* The errors raised so far, printed or not.
ErrorSites(c) == c.errorLog.windows + c.errorLog.panicSites

\* The operator ops among the ops: what is left without the loads of the
\* operands.
OperatorOps(ops) == SelectSeq(ops, LAMBDA op : op \notin {"LoadLocal", "LoadConstant"})

\* The observer's note of one initialiser: c3 is the Compiler at the first
\* token of the expression, c4 after it, d after the `;`.  It holds the kind
\* of the leftmost token, whether expression and `;` went without error,
\* and the operator ops the expression emitted.
LogExpression(c3, c4, d, localId) ==
  IF Stopped(d) \/ c3.lastFunction = 0 THEN d
  ELSE [d EXCEPT !.expressionLog = @ \cup
          {[slot |-> localId, lead |-> c3.current.type,
            accepted |-> ErrorSites(d) = ErrorSites(c3),
            ops |-> OperatorOps(SubSeq(c4.functionList[c4.lastFunction].ops,
                                       GetNumOps(c3) + 1, GetNumOps(c4)))]}]

\* Compiler::VarDeclaration (final = FALSE) and Compiler::FinalDeclaration
\* (final = TRUE), after the name: localId is the slot given to it.
LocalInitialiser(c2, final, localId) ==
  LET AfterExpression(c3, c4) ==
        IF c4.crashed THEN c4
        ELSE LogExpression(c3, c4,
               Consume(EmitOp(EmitConstant(Unlatch(c4), IntV(localId)), "AssignLocal"),
                       "Semicolon", "Expected ';' after declaration"),
               localId)
      AtExpression(c3) == AfterExpression(c3, Expression(Latch(c3), FALSE))
  IN IF final \/ Check(c2, "Equal")
     THEN AtExpression(IF final
                       THEN Consume(c2, "Equal", "Must assign to final upon declaration")
                       ELSE Advance(c2))
     ELSE Consume(c2, "Semicolon", "Expected ';' after declaration")

LocalNamed(c1, final) ==
  IF c1.previous.text \in DOMAIN c1.locals
  THEN MessageAtPrevious(c1, "A local variable with the same name already exists",
                         "Error")
  ELSE LocalInitialiser(
         EmitOp([c1 EXCEPT !.locals = LocalsInsert(@, c1.previous.text, final,
                                                   LocalsSize(c1.locals))],
                "DeclareLocal"),
         final, LocalsSize(c1.locals))

LocalDeclaration(c, final) ==
  IF c.context = "TopLevel"
  THEN MessageAtPrevious(c, "Only functions and classes are allowed at top level",
                         "Error")
  ELSE LocalNamed(Consume(c, "Identifier", "Expected identifier"), final)

VarDeclaration(c) == LocalDeclaration(c, FALSE)
FinalDeclaration(c) == LocalDeclaration(c, TRUE)

\* Compiler::ClassDeclaration: GRACE_NOT_IMPLEMENTED().
ClassDeclaration(c) == [c EXCEPT !.crashed = TRUE]

\* Compiler::ExpressionStatement
ExpressionStatement(c) ==
  LET AfterExpression(c1) ==
        IF c1.crashed THEN c1
        ELSE Consume(c1, "Semicolon", "Expected ';' after expression")
  IN IF IsLiteral(c.current.type) \/ IsOperator(c.current.type)
     THEN MessageAtCurrent(c, "Expected identifier or keyword at start of expression",
                           "Error")
     ELSE AfterExpression(Expression(c, TRUE))

\* Compiler::PrintStatement (op = "Print", empty = "PrintTab") and
\* Compiler::PrintLnStatement (op = "PrintLn", empty = "PrintEmptyLine"),
\* after the opening parenthesis.
PrintArgument(c1, op, empty) ==
  LET AfterExpression(c2) ==
        IF c2.crashed THEN c2
        ELSE Consume(Consume(EmitOp(EmitOp(Unlatch(c2), op), "Pop"),
                             "RightParen", "Expected ')' after expression"),
                     "Semicolon", "Expected ';' after expression")
  IN IF Check(c1, "RightParen")
     THEN Consume(EmitOp(Advance(c1), empty), "Semicolon",
                  "Expected ';' after expression")
     ELSE AfterExpression(Expression(Latch(c1), FALSE))

PrintStatementOf(c, op, empty) ==
  PrintArgument(Consume(c, "LeftParen", "Expected '(' after print"), op, empty)

PrintStatement(c) == PrintStatementOf(c, "Print", "PrintTab")
PrintLnStatement(c) == PrintStatementOf(c, "PrintLn", "PrintEmptyLine")

\* The observer's note of a `return` refused as standing outside every
\* function: whether it stood in a function declaration (Statement refuses
\* everything at top level before it gets here), in a loop of it, and in
\* which function.
LogReturn(c, d) ==
  [d EXCEPT !.returnLog = @ \cup {[inFunction |-> c.context # "TopLevel",
                                   inLoop |-> InLoopBody(c),
                                   function |-> GetLastFunctionName(c)]}]

\* Compiler::ReturnStatement
ReturnStatement(c) ==
  LET AfterExpression(c2) ==
        IF c2.crashed THEN c2
        ELSE [Consume(EmitOp(Unlatch(c2), "Return"),
                      "Semicolon", "Expected ';' after expression")
                EXCEPT !.functionHadReturn = TRUE]
  IN IF c.context # "Function"
     THEN LogReturn(c, MessageAtPrevious(c, "return only allowed inside functions",
                                         "Error"))
     ELSE IF GetLastFunctionName(c) = "main"
     THEN MessageAtPrevious(c, "Cannot return from main function", "Error")
     ELSE IF Check(c, "Semicolon")
     THEN EmitOp(EmitOp(EmitConstant(Advance(c), NullV), "LoadConstant"), "Return")
     ELSE AfterExpression(Expression(Latch(c), FALSE))

\* The body loop of Compiler::ForStatement: [c, ok]; ok is FALSE on the
\* early return for an unterminated loop.
ForBody(c) ==
  LET AfterDeclaration(c1) ==
        IF c1.current.type = "EndOfFile"
        THEN [c |-> MessageAtPrevious(Advance(c1), "Unterminated for", "Error"),
              ok |-> FALSE]
        ELSE ForBody(c1)
  IN CASE Stopped(c) -> [c |-> c, ok |-> FALSE]
       [] ~Stopped(c) /\ Check(c, "End") -> [c |-> Advance(c), ok |-> TRUE]
       [] OTHER -> AfterDeclaration(BodyDeclaration(c))

\* The range minimum or maximum of a `for` header: an integer literal or a
\* local (the inputs hold no Double tokens).  [c, ok, kind, val].
ForBound(c, what) ==
  IF Check(c, "Integer")
  THEN [c |-> Advance(c), ok |-> TRUE, kind |-> "const", val |-> c.current.val]
  ELSE IF Check(c, "Identifier")
  THEN IF c.current.text \notin DOMAIN c.locals
       THEN [c |-> MessageAtPrevious(Advance(c), "Cannot find variable in this scope.",
                                     "Error"),
             ok |-> FALSE, kind |-> "none", val |-> 0]
       ELSE [c |-> Advance(c), ok |-> TRUE, kind |-> "local",
             val |-> c.locals[c.current.text].id]
  ELSE [c |-> MessageAtCurrent(c, what, "Error"), ok |-> FALSE, kind |-> "none",
        val |-> 0]

\* The `by` clause of a `for` header.  [c, ok, val].
ForIncrement(c) ==
  IF Check(c, "By")
  THEN IF Check(Advance(c), "Integer")
       THEN [c |-> Advance(Advance(c)), ok |-> TRUE, val |-> Advance(c).current.val]
       ELSE [c |-> MessageAtPrevious(Advance(c), "Increment must be a number", "Error"),
             ok |-> FALSE, val |-> 0]
  ELSE [c |-> c, ok |-> TRUE, val |-> 1]

\* The part of Compiler::ForStatement after the loop body: the increment,
\* the comparison with the maximum and the jump back to the body.
ForLoopBack(c, iteratorId, max, increment, constantIdx, opIdx) ==
  EmitOp(EmitConstant(EmitConstant(
    EmitOp(EmitOp(EmitConstant(
      EmitOp(EmitConstant(
        EmitOp(EmitConstant(
          EmitOp(EmitOp(EmitConstant(
            EmitOp(EmitConstant(c, IntV(iteratorId)), "LoadLocal"),
            IntV(increment)), "LoadConstant"), "Add"),
          IntV(iteratorId)), "AssignLocal"),
        IntV(iteratorId)), "LoadLocal"),
      IntV(max.val)), IF max.kind = "const" THEN "LoadConstant" ELSE "LoadLocal"),
      "GreaterEqual"),
    IntV(constantIdx)), IntV(opIdx)), "JumpIfFalse")

\* The observer's note of a loop that ends here: its exit point (the ops
\* and constants emitted so far) in the function being compiled.
LeaveLoop(c) ==
  IF c.lastFunction = 0 \/ ~InLoopBody(c) THEN c
  ELSE [c EXCEPT !.loopIds = Front(@),
                 !.functionList[c.lastFunction].loops =
                    @ \cup {[id |-> InnermostLoop(c), exitOp |-> GetNumOps(c),
                             exitConst |-> GetNumConstants(c)]}]

\* The end of Compiler::ForStatement: break patching and the PopLocals.
LoopEnd(c7, startLocalsList, previousContext) ==
  [PopNewLocals(LoopPatchBreaks(LeaveLoop(c7), GetNumConstants(c7), GetNumOps(c7)),
                startLocalsList)
     EXCEPT !.context = previousContext]

ForEpilogue(c, iteratorId, max, increment, constantIdx, opIdx, startLocalsList, previousContext) ==
  LoopEnd(ForLoopBack(c, iteratorId, max, increment, constantIdx, opIdx),
          startLocalsList, previousContext)

\* Compiler::ForStatement
ForStatement(c) ==
  LET previousContext == c.context
      startLocalsList == DOMAIN c.locals
      entry == GetNumOps(c)
      AfterBody(body, iteratorId, max, increment, constantIdx, opIdx) ==
        IF ~body.ok THEN body.c
        ELSE RecordBlock(ForEpilogue(body.c, iteratorId, max, increment, constantIdx,
                                     opIdx, startLocalsList, previousContext),
                         entry)
      AfterColon(c7, iteratorId, max, increment) ==
        AfterBody(ForBody(c7), iteratorId, max, increment, GetNumConstants(c7),
                  GetNumOps(c7))
      AfterIncrement(inc, iteratorId, max) ==
        IF ~inc.ok THEN inc.c
        ELSE AfterColon(Consume(inc.c, "Colon", "Expected ':' after for statement"),
                        iteratorId, max, inc.val)
      AfterMax(max, iteratorId) ==
        IF ~max.ok THEN max.c
        ELSE AfterIncrement(ForIncrement(max.c), iteratorId, max)
      AfterMin(min, iteratorId) ==
        IF ~min.ok THEN min.c
        ELSE AfterMax(
               ForBound(
                 Consume(EmitOp(EmitConstant(
                           EmitOp(EmitConstant(min.c, IntV(min.val)),
                                  IF min.kind = "const" THEN "LoadConstant"
                                  ELSE "LoadLocal"),
                           IntV(iteratorId)), "AssignLocal"),
                         "DotDot", "Expected '..' after range min"),
                 "Expected identifier or integer as range max"),
               iteratorId)
      AfterIdentifier(c1, iteratorName) ==
        IF iteratorName \notin DOMAIN c1.locals
        THEN AfterMin(
               ForBound(
                 Consume(EmitOp([c1 EXCEPT !.locals =
                                    LocalsInsert(@, iteratorName, FALSE,
                                                 LocalsSize(c1.locals))],
                                "DeclareLocal"),
                         "In", "Expected in after identifier"),
                 "Expected identifier or number as range min"),
               LocalsSize(c1.locals))
        ELSE IF IsFinalLocal(c1, iteratorName)
        THEN MessageAtPrevious(CountFinalTarget(c1),
                               "Loop variable has already been declared as final",
                               "Error")
        ELSE AfterMin(
               ForBound(Consume(CountFinalAssign(c1, iteratorName), "In",
                                "Expected in after identifier"),
                        "Expected identifier or number as range min"),
               c1.locals[iteratorName].id)
      Named(c1) == AfterIdentifier(c1, c1.previous.text)
  IN Named(Consume(EnterLoop(c), "Identifier", "Expected identifier after for"))

\* The `while (true)` loop of Compiler::IfStatement.  s holds its local
\* variables; the result is [c, ok, s], ok FALSE on an early return.
IfLoop(c, s) ==
  LET sawElse == Check(c, "Else")
      a == Advance(c)
      a2 == EmitOp(EmitPlaceholder(EmitPlaceholder(a)), "Jump")
      a3 == IF ~s.topJumpSet
            THEN SetConstantAtIndex(
                   SetConstantAtIndex(a2, s.topConstantIdxToJump,
                                      IntV(GetNumConstants(a2))),
                   s.topOpIdxToJump, IntV(GetNumOps(a2)))
            ELSE a2
      s1 == [s EXCEPT !.endJumpIndexPairs =
                         Append(@, <<GetNumConstants(a),
                                     GetNumConstants(EmitConstant(a, IntV(0)))>>),
                      !.topJumpSet = TRUE,
                      !.chain = [@ EXCEPT !.endJump = GetNumOps(a),
                                          !.elseOp = GetNumOps(a2),
                                          !.elseConst = GetNumConstants(a2)]]
      isElse == Check(a3, "Colon")
      isElseIf == ~isElse /\ Check(a3, "If")
      s2 == IF ~sawElse THEN s
            ELSE [s1 EXCEPT !.elseBlockFound = isElse,
                            !.elseIfBlockFound = isElseIf]
      c1 == IF ~sawElse THEN c ELSE IF isElse THEN Advance(a3) ELSE a3
      AfterDeclaration(c2, s3) ==
        CASE s3.elseIfBlockFound -> [c |-> c2, ok |-> TRUE, s |-> s3]
          [] ~s3.elseIfBlockFound /\ c2.current.type = "EndOfFile" ->
               [c |-> MessageAtPrevious(Advance(c2), "Unterminated if statement",
                                        "Error"),
                ok |-> FALSE, s |-> s3]
          [] ~s3.elseIfBlockFound /\ c2.current.type = "End" ->
               [c |-> Advance(c2), ok |-> TRUE, s |-> s3]
          [] OTHER -> IfLoop(c2, s3)
      step == IF Stopped(c) THEN "Stopped"
              ELSE IF sawElse /\ s.elseBlockFound THEN "UnreachableElse"
              ELSE IF sawElse /\ ~isElse /\ ~isElseIf THEN "ExpectedIf"
              ELSE "Body"
  IN CASE step = "Stopped" -> [c |-> c, ok |-> FALSE, s |-> s]
       [] step = "UnreachableElse" ->
            [c |-> MessageAtPrevious(a, "Unreachable else due to previous else", "Error"),
             ok |-> FALSE, s |-> s]
       [] step = "ExpectedIf" ->
            [c |-> MessageAtCurrent(a3, "Expected if or : after else", "Error"),
             ok |-> FALSE, s |-> s1]
       [] OTHER -> AfterDeclaration(BodyDeclaration(c1), s2)

\* The observer of Compiler::IfStatement: where the JumpIfFalse of the
\* condition, the Jump that ends the first branch (-1 without `else`), the
\* first op of what follows `else` and the end of the statement are in the
\* op and constant lists of the function.
RecordIf(c, d, s) ==
  IF c.lastFunction = 0 THEN d
  ELSE [d EXCEPT !.functionList[c.lastFunction].ifs =
                    @ \cup {[s.chain EXCEPT !.exitOp = GetNumOps(c),
                                            !.exitConst = GetNumConstants(c)]}]

\* The end of Compiler::IfStatement: the jump patches and the PopLocals.
IfEnd(c, s, startLocalsList) ==
  PopNewLocals(RecordIf(c,
    IF ~s.topJumpSet
    THEN SetConstantAtIndex(
           SetConstantAtIndex(
             PatchBreaks(c, s.endJumpIndexPairs, GetNumConstants(c), GetNumOps(c)),
             s.topConstantIdxToJump, IntV(GetNumConstants(c))),
           s.topOpIdxToJump, IntV(GetNumOps(c)))
    ELSE PatchBreaks(c, s.endJumpIndexPairs, GetNumConstants(c), GetNumOps(c)), s),
    startLocalsList)

\* Compiler::IfStatement
IfStatement(c) ==
  LET entry == GetNumOps(c)
      AfterLoop(r, startLocalsList) ==
        IF ~r.ok THEN r.c ELSE RecordBlock(IfEnd(r.c, r.s, startLocalsList), entry)
      AfterCondition(c1) ==
        IF c1.crashed THEN c1 ELSE
        AfterLoop(IfLoop(EmitOp(EmitPlaceholder(EmitPlaceholder(
                                  Consume(Unlatch(c1), "Colon",
                                          "Expected ':' after condition"))),
                                "JumpIfFalse"),
                         [topJumpSet |-> FALSE, elseBlockFound |-> FALSE,
                          elseIfBlockFound |-> FALSE, endJumpIndexPairs |-> <<>>,
                          topConstantIdxToJump |-> GetNumConstants(c1),
                          topOpIdxToJump |-> GetNumConstants(EmitConstant(c1, IntV(0))),
                          chain |-> [jif |-> GetNumOps(c1), endJump |-> -1,
                                     elseOp |-> -1, elseConst |-> -1,
                                     exitOp |-> -1, exitConst |-> -1]]),
                  DOMAIN c1.locals)
  IN AfterCondition(Expression(Latch(c), FALSE))

\* The body loop of Compiler::WhileStatement: [c, ok].
WhileBody(c) ==
  LET AfterDeclaration(c1) ==
        IF c1.current.type = "EndOfFile"
        THEN [c |-> MessageAtPrevious(Advance(c1), "Unterminated while loop", "Error"),
              ok |-> FALSE]
        ELSE WhileBody(c1)
  IN CASE Stopped(c) -> [c |-> c, ok |-> FALSE]
       [] ~Stopped(c) /\ Check(c, "End") -> [c |-> Advance(c), ok |-> TRUE]
       [] OTHER -> AfterDeclaration(BodyDeclaration(c))

\* A WhileStatement that leaves the placeholders of its exit jump as they are.
WhileLoopBackUnpatched(c5, endConstantJumpIdx, endOpJumpIdx) == c5

\* The jump back to the condition and the patch of the exit jump.
WhileLoopBack(c5, endConstantJumpIdx, endOpJumpIdx) ==
  SetConstantAtIndex(
    SetConstantAtIndex(c5, endConstantJumpIdx, IntV(GetNumConstants(c5))),
    endOpJumpIdx, IntV(GetNumOps(c5)))

\* The observer of Compiler::WhileStatement: where the loop top, the
\* JumpIfFalse of the condition, the Jump back and the loop exit are in the
\* op and constant lists of the function (d is the Compiler after the jump
\* back has been emitted).
RecordWhile(d, opIdx, constantIdx, jif) ==
  IF d.lastFunction = 0 THEN d
  ELSE [d EXCEPT !.functionList[d.lastFunction].whiles =
                    @ \cup {[top |-> opIdx, topConst |-> constantIdx, jif |-> jif,
                             back |-> GetNumOps(d) - 1, exitOp |-> GetNumOps(d),
                             exitConst |-> GetNumConstants(d)]}]

\* Compiler::WhileStatement
WhileStatement(c) ==
  LET previousContext == c.context
      constantIdx == GetNumConstants(c)
      opIdx == GetNumOps(c)
      AfterBody(body, endConstantJumpIdx, endOpJumpIdx, startLocalsList, jif) ==
        IF ~body.ok THEN body.c
        ELSE RecordBlock(
               LoopEnd(RecordWhile(
                         WhileLoopBack(
                           EmitOp(EmitConstant(EmitConstant(body.c, IntV(constantIdx)),
                                               IntV(opIdx)),
                                  "Jump"),
                           endConstantJumpIdx, endOpJumpIdx),
                         opIdx, constantIdx, jif),
                       startLocalsList, previousContext),
               opIdx)
      AfterCondition(c1) ==
        IF c1.crashed THEN c1 ELSE
        AfterBody(WhileBody(Consume(EmitOp(EmitPlaceholder(EmitPlaceholder(Unlatch(c1))),
                                           "JumpIfFalse"),
                                    "Colon", "Expected ':' after expression")),
                  GetNumConstants(c1), GetNumConstants(EmitConstant(c1, IntV(0))),
                  DOMAIN c1.locals, GetNumOps(c1))
  IN AfterCondition(Expression(Latch(EnterLoop(c)), FALSE))

\* The parameter loop of Compiler::FuncDeclaration: [c, ok, parameters,
\* slots]; slots[i] is the m_Locals id given to the i-th parameter.
FuncParams(c, ps) ==
  LET Named(c1, final) ==
        IF \E i \in 1..Len(ps.parameters) : ps.parameters[i] = c1.previous.text
        THEN [ps EXCEPT !.c = MessageAtPrevious(c1,
                          "Function parameters with the same name already defined",
                          "Error"),
                        !.ok = FALSE]
        ELSE FuncParams(
               [c1 EXCEPT !.locals = LocalsInsert(@, c1.previous.text, final,
                                                  LocalsSize(c1.locals))],
               [ps EXCEPT !.parameters = Append(@, c1.previous.text),
                          !.slots = Append(@, LocalsInsert(c1.locals, c1.previous.text, final,
                                                           LocalsSize(c1.locals))
                                                [c1.previous.text].id)])
  IN IF Check(c, "RightParen") THEN [ps EXCEPT !.c = Advance(c), !.ok = TRUE]
     ELSE IF Check(c, "Final")
     THEN Named(Consume(Advance(c), "Identifier", "Expected identifier after final"),
                TRUE)
     ELSE IF Check(c, "Identifier") THEN Named(Advance(c), FALSE)
     ELSE IF Check(c, "Comma") THEN FuncParams(Advance(c), ps)
     ELSE [ps EXCEPT !.c = MessageAtCurrent(c, "Expected ',' after function parameter",
                                            "Error"),
                     !.ok = FALSE]

\* The body loop of Compiler::FuncDeclaration: [c, ok].
FuncBody(c) ==
  LET AfterDeclaration(c1) ==
        IF c1.current.type = "EndOfFile"
        THEN [c |-> MessageAtCurrent(c1, "Expected end after function", "Error"),
              ok |-> FALSE]
        ELSE FuncBody(c1)
  IN CASE Stopped(c) -> [c |-> c, ok |-> FALSE]
       [] ~Stopped(c) /\ Check(c, "End") -> [c |-> Advance(c), ok |-> TRUE]
       [] OTHER -> AfterDeclaration(BodyDeclaration(c))

\* The implicit return of Compiler::FuncDeclaration.
ImplicitReturn(c) ==
  IF ~c.functionHadReturn /\ GetLastFunctionName(c) # "main"
  THEN EmitOp(EmitOp(EmitConstant(c, NullV), "LoadConstant"), "Return")
  ELSE c

\* VM::AddFunction as called by FuncDeclaration; the slots of the
\* parameters are kept with the function for the argument-binding property.
AddFunctionWithSlots(c, name, ps) ==
  [AddFunction(c, name, Len(ps.parameters))
     EXCEPT !.functionList[Len(c.functionList) + 1].paramSlots = ps.slots,
            !.functionHadReturn = FALSE]

\* The observer of a registration that VM::AddFunction refused (c is the
\* Compiler before the call, d after FuncDeclaration has dealt with it):
\* whether the function table and the last-function marker are as they
\* were, whether panic mode was set already, and what was reported.
LogDuplicate(c, d) ==
  [d EXCEPT !.duplicateLog = @ \cup
              {[kept |-> (d.functionList = c.functionList
                          /\ d.lastFunction = c.lastFunction),
                panic |-> c.panicMode,
                reported |-> (d.diagnostics =
                                Append(c.diagnostics,
                                       "Duplicate function definitions")),
                error |-> d.hadError]}]

\* Compiler::FuncDeclaration
FuncDeclaration(c) ==
  LET previous == c.context
      AfterBody(body) ==
        IF ~body.ok THEN body.c
        ELSE [ImplicitReturn(body.c) EXCEPT !.locals = <<>>, !.context = previous,
                                            !.loopIds = c.loopIds]
      AfterColon(c3, name, ps) ==
        IF HasFunction(c3, Hash(name))
        THEN LogDuplicate(c3,
               MessageAtPrevious(AddFunction(c3, name, Len(ps.parameters)),
                                 "Duplicate function definitions", "Error"))
        ELSE AfterBody(FuncBody(AddFunctionWithSlots(c3, name, ps)))
      AfterParams(ps, name) ==
        IF ~ps.ok THEN ps.c
        ELSE AfterColon(Consume(ps.c, "Colon", "Expected ':' after function signature"),
                        name, ps)
      Named(c1) ==
        AfterParams(FuncParams(Consume(c1, "LeftParen",
                                       "Expected '(' after function name"),
                               [c |-> c1, ok |-> TRUE, parameters |-> <<>>,
                                slots |-> <<>>]),
                    c1.previous.text)
  IN Named(Consume([c EXCEPT !.context = "Function", !.loopIds = <<>>], "Identifier",
                   "Expected function name"))

\* ForStatement or WhileStatement has returned, by whichever path: what
\* follows is outside that loop.  The observer notes the depth of
\* m_BreakIdxPairs and m_CurrentContext before and after the statement.
AfterLoopStatement(c, d) ==
  [d EXCEPT !.loopIds = c.loopIds,
            !.loopLog = @ \cup {[before |-> Len(c.breakIdxPairs),
                                 after |-> Len(d.breakIdxPairs),
                                 entered |-> c.context, left |-> d.context,
                                 kind |-> c.current.type,
                                 error |-> ErrorSites(d) # ErrorSites(c),
                                 stopped |-> Stopped(d)]}]

\* Compiler::Statement
Statement(c) ==
  LET t == IF c.context = "TopLevel" THEN "TopLevel" ELSE c.current.type
  IN CASE t = "TopLevel" ->
            MessageAtCurrent(c, "Only functions and classes are allowed at top level",
                             "Error")
       [] t = "For" -> AfterLoopStatement(c, ForStatement(Advance(c)))
       [] t = "If" -> IfStatement(Advance(c))
       [] t = "Print" -> PrintStatement(Advance(c))
       [] t = "PrintLn" -> PrintLnStatement(Advance(c))
       [] t = "Return" -> ReturnStatement(Advance(c))
       [] t = "While" -> AfterLoopStatement(c, WhileStatement(Advance(c)))
       [] OTHER -> ExpressionStatement(c)

\* The observer of a return of Synchronize (c is the Compiler it was called
\* on, d the one it returned): whether panic mode is set, whether the
\* compiler is at a statement boundary, and whether a token skipped on the
\* way was an error token.
AtBoundary(d) ==
  \/ d.current.type = "EndOfFile"
  \/ d.previous.type = "Semicolon"
  \/ d.current.type \in SyncKeywords

LogSynchronize(c, d) ==
  [d EXCEPT !.syncLog = @ \cup
              {[panic |-> d.panicMode, boundary |-> AtBoundary(d),
                skipped |-> d.pos - c.pos,
                errorToken |-> (\E i \in c.pos..(d.pos - 1) :
                                  c.tokens[i].type = "Error")]}]

\* The end of Compiler::Declaration: Synchronize() in panic mode.  A
\* compiler that has crashed or hangs does not get here.
DeclarationEnd(c1) ==
  IF Stopped(c1) THEN c1
  ELSE IF c1.panicMode THEN LogSynchronize(c1, Synchronize(c1)) ELSE c1

\* The ops and constants emitted so far.
Emitted(c) ==
  [i \in DOMAIN c.functionList |-> <<c.functionList[i].ops, c.functionList[i].consts>>]

\* The observer of the declarations that Compile() makes: for one other than
\* `class` and `func` met while m_CurrentContext is TopLevel, its first token
\* and what the compiler did with it (d is the Compiler after it).
LogTopLevel(c, d) ==
  IF c.context = "TopLevel" /\ ~Check(c, "Class") /\ ~Check(c, "Func")
  THEN [d EXCEPT !.topLevelLog = @ \cup
                   {[form |-> c.current.type,
                     error |-> Len(d.diagnostics) > Len(c.diagnostics),
                     silent |-> Emitted(d) = Emitted(c)]}]
  ELSE d

\* Compiler::Declaration
Declaration(c) ==
  DeclarationEnd(
    CASE Check(c, "Class") -> ClassDeclaration(Advance(c))
      [] Check(c, "Func") -> FuncDeclaration(Advance(c))
      [] Check(c, "Var") -> VarDeclaration(Advance(c))
      [] Check(c, "Final") -> FinalDeclaration(Advance(c))
      [] Check(c, "Break") -> BreakDeclaration(Advance(c))
      [] Check(c, "Assert") -> AssertDeclaration(Advance(c))
      [] OTHER -> Statement(c))

\* The declaration loop of Grace::Compiler::Compile.
RECURSIVE CompileLoop(_)
CompileLoop(c) ==
  LET AfterDeclaration(c1) == IF c1.hadError THEN c1 ELSE CompileLoop(c1)
  IN CASE Stopped(c) -> c
       [] ~Stopped(c) /\ Check(c, "EndOfFile") -> Advance(c)
       [] OTHER -> AfterDeclaration(LogTopLevel(c, Declaration(c)))

\* Grace::Compiler::Compile up to the call of Finalise: the Compiler object
\* after the whole token stream has been fed to it.
Compiled(toks) == CompileLoop(Advance(NewCompiler(toks)))

----------------------------------------------------------------------------
(* The state: the input, the Compiler object after compilation, the VM's   *)
(* function table and linked image, and the local variables of VM::Run.    *)

VARIABLES
  tokens,            \* the token stream of the source file
  phase,             \* "Compile", "Finalise", "Start", "Run" or "Done"
  compiler,          \* the Compiler object (without its token stream)
  functionList,      \* VM::m_FunctionList, in insertion order
  fullOpList,        \* VM::m_FullOpList
  fullConstantList,  \* VM::m_FullConstantList
  run,               \* the locals of VM::Run: stacks, cursors, funcNameHash
  result,            \* what the process ended with ("None" while it runs)
  raised,            \* the InterpretError handed to VM::RuntimeError, or "None"
  output,            \* the values printed so far
  history,           \* what an observer of VM::Run has seen (see NoHistory)
  dictionary,        \* a GraceDictionary object
  cli                \* the locals of main() while it reads the command line

vars == <<tokens, phase, compiler, functionList, fullOpList, fullConstantList,
          run, result, raised, output, history, dictionary, cli>>

\* The variables of the other objects, which compiling and running a file
\* leave alone.
Others == <<dictionary, cli>>

\* The locals of VM::Run before its first statement.
NoRun ==
  [valueStack |-> <<>>, localsList |-> <<>>, localsOffsets |-> <<>>,
   callStack |-> <<>>, opOffsets |-> <<>>, constantOffsets |-> <<>>,
   opCurrent |-> 0, constantCurrent |-> 0, funcNameHash |-> 0, steps |-> 0]

\* The observer of VM::Run.  op and before: the op executed last and the
\* locals of Run before it.  open: the blocks (if, while, for) entered and
\* not yet left, each with the call depth and the length of localsList at
\* entry.  exited: for every block left, that length at entry and at exit.
\* calls: one record per Call not yet returned from.  returned: for every
\* Return that had such a record, what the Call left and what Return made.
NoHistory ==
  [op |-> "None", before |-> NoRun, open |-> {}, exited |-> {}, calls |-> <<>>,
   returned |-> {}]

\* A driver that calls Finalise whatever the compiler reported.
ShouldFinaliseAlways(c) == TRUE

\* The condition under which Grace::Compiler::Compile calls Finalise.
ShouldFinalise(c) == ~c.hadError

\* Grace::Compiler::Compile: the whole file is compiled; the VM is started
\* only when no error was reported.  An exception thrown by the compiler
\* ends the process; a compiler that loops for ever never gets further.
CompileEnd(c) ==
  /\ compiler' = [c EXCEPT !.tokens = <<>>]
  /\ functionList' = c.functionList
  /\ IF c.crashed
     THEN phase' = "Done" /\ result' = "Crashed"
     ELSE IF c.hung
     THEN phase' = "Done" /\ result' = "Hung"
     ELSE IF ShouldFinalise(c)
     THEN phase' = "Finalise" /\ result' = "None"
     ELSE phase' = "Done" /\ result' = "CompileError"

Compile ==
  /\ phase = "Compile"
  /\ CompileEnd(Compiled(tokens))
  /\ UNCHANGED <<tokens, fullOpList, fullConstantList, run, raised, output, history,
                 Others>>

FunctionIndex(fl, hash) ==
  IF \E i \in 1..Len(fl) : fl[i].hash = hash
  THEN CHOOSE i \in 1..Len(fl) : fl[i].hash = hash
  ELSE 0

\* A link step that records the length of the op list as the start of the
\* constants of a function too.
RECURSIVE CombineLoopOneOffset(_, _, _, _)
CombineLoopOneOffset(fl, order, ops, consts) ==
  IF order = <<>> THEN [fl |-> fl, ops |-> ops, consts |-> consts]
  ELSE CombineLoopOneOffset([fl EXCEPT ![order[1]].opIndexStart = Len(ops),
                                       ![order[1]].constantIndexStart = Len(ops)],
                            Tail(order), ops \o fl[order[1]].ops,
                            consts \o fl[order[1]].consts)

\* The loop of VM::CombineFunctions over the functions other than main, in
\* the given order: [fl, ops, consts].
RECURSIVE CombineLoop(_, _, _, _)
CombineLoop(fl, order, ops, consts) ==
  IF order = <<>> THEN [fl |-> fl, ops |-> ops, consts |-> consts]
  ELSE LET i == order[1]
       IN CombineLoop([fl EXCEPT ![i].opIndexStart = Len(ops),
                                 ![i].constantIndexStart = Len(consts)],
                      Tail(order), ops \o fl[i].ops, consts \o fl[i].consts)

\* The orders in which the function table can be iterated.
Orders(S) ==
  {o \in [1..Cardinality(S) -> S] : \A i, j \in 1..Cardinality(S) : o[i] = o[j] => i = j}

\* VM::CombineFunctions: main first, then every other function; without a
\* main function execution does not start.
CombineFunctions ==
  /\ phase = "Finalise"
  /\ LET main == FunctionIndex(functionList, Hash("main"))
     IN IF main = 0
        THEN /\ phase' = "Done"
             /\ result' = "NoMain"
             /\ UNCHANGED <<functionList, fullOpList, fullConstantList>>
        ELSE \E order \in Orders((1..Len(functionList)) \ {main}) :
               LET r == CombineLoop(functionList, order, functionList[main].ops,
                                    functionList[main].consts)
               IN /\ functionList' = r.fl
                  /\ fullOpList' = r.ops
                  /\ fullConstantList' = r.consts
                  /\ phase' = "Start"
                  /\ result' = "None"
  /\ UNCHANGED <<tokens, compiler, run, raised, output, history, Others>>

\* The blocks of the function being executed, as positions in m_FullOpList.
BlocksAt(r) ==
  LET it == FunctionIndex(functionList, r.funcNameHash)
  IN IF it = 0 THEN {}
     ELSE {[entry |-> functionList[it].opIndexStart + b.entry,
            exit |-> functionList[it].opIndexStart + b.exit] :
           b \in functionList[it].blocks}

\* The observer's view of the blocks once Run is at r: the blocks of frames
\* that are gone are forgotten, a block whose end the op cursor has reached
\* is left, a block whose first op is under the cursor is entered.
Observe(h, r) ==
  LET depth == Len(r.callStack)
      kept == {b \in h.open : b.depth <= depth}
      closing == {b \in kept : b.depth = depth /\ b.exit = r.opCurrent}
      staying == kept \ closing
      opening == {b \in BlocksAt(r) :
                    /\ b.entry = r.opCurrent
                    /\ ~\E o \in staying :
                          o.depth = depth /\ o.entry = b.entry /\ o.exit = b.exit}
  IN [h EXCEPT !.open = staying \cup
                          {[depth |-> depth, entry |-> b.entry, exit |-> b.exit,
                            len |-> Len(r.localsList)] : b \in opening},
               !.exited = @ \cup {[entry |-> b.len, exit |-> Len(r.localsList)] :
                                   b \in closing}]

\* VM::Run up to its loop: the frame of main.
RunFrame(mainFunc) ==
  [NoRun EXCEPT !.funcNameHash = Hash("main"),
                !.opOffsets = <<mainFunc.opIndexStart>>,
                !.constantOffsets = <<mainFunc.constantIndexStart>>,
                !.localsOffsets = <<0>>,
                !.callStack = <<<<Hash("file"), Hash("main")>>>>]

RunStart ==
  /\ phase = "Start"
  /\ run' = RunFrame(functionList[FunctionIndex(functionList, Hash("main"))])
  /\ history' = Observe(NoHistory,
                        RunFrame(functionList[FunctionIndex(functionList,
                                                            Hash("main"))]))
  /\ phase' = "Run"
  /\ UNCHANGED <<tokens, compiler, functionList, fullOpList, fullConstantList,
                 result, raised, output, Others>>

----------------------------------------------------------------------------
(* The fetch-decode-execute loop of VM::Run, one action per opcode.        *)

InLoop == phase = "Run" /\ run.opCurrent < Len(fullOpList) /\ run.steps < MaxSteps

\* The op about to be fetched and the constants under the constant cursor.
CurrentOp == fullOpList[run.opCurrent + 1]
HasConstants(n) == run.constantCurrent + n <= Len(fullConstantList)
Constant(i) == fullConstantList[run.constantCurrent + i]

Depth == Len(run.valueStack)
Top == run.valueStack[Depth]
Popped(n) == SubSeq(run.valueStack, 1, Depth - n)

\* localsOffsets.top() + id, as an index into localsList (from 1).
LocalIndex(id) == Last(run.localsOffsets) + id + 1

\* static_cast<std::size_t> of a value popped as a return address.
SizeT(n) == IF n < 0 THEN n + 1073741824 ELSE n

\* After `auto [op, line] = m_FullOpList[opCurrent++]`.
Fetched == [run EXCEPT !.opCurrent = @ + 1, !.steps = @ + 1]

Frame == <<tokens, compiler, functionList, fullOpList, fullConstantList, Others>>

\* The observer after the current op, which stops the loop.
Stopping(h) == [h EXCEPT !.op = CurrentOp, !.before = run]

\* RETURN_ERR() and RETURN_ASSERT_FAILED() after VM::RuntimeError(errorType).
ReturnErr(r, errorType) ==
  /\ run' = [r EXCEPT !.localsList = <<>>]
  /\ raised' = errorType
  /\ result' = "RuntimeError"
  /\ phase' = "Done"
  /\ history' = Stopping(history)
  /\ UNCHANGED <<Frame, output>>

\* A RETURN_ASSERT_FAILED() that returns what RETURN_ERR() returns.
ReturnAssertFailedAsError(r, errorType) == ReturnErr(r, errorType)

ReturnAssertFailed(r, errorType) ==
  /\ run' = [r EXCEPT !.localsList = <<>>]
  /\ raised' = errorType
  /\ result' = "RuntimeAssertionFailed"
  /\ phase' = "Done"
  /\ history' = Stopping(history)
  /\ UNCHANGED <<Frame, output>>

\* What a Call that transfers control leaves for the matching Return.
CallRecord ==
  [opCurrent |-> run.opCurrent + 1,
   constantCurrent |-> run.constantCurrent + 2,
   valueStack |-> SubSeq(run.valueStack, 1, Len(run.valueStack) - Constant(2).v),
   localsOffsets |-> Len(run.localsOffsets),
   callStack |-> Len(run.callStack),
   localsList |-> Len(run.localsList)]

\* What a Return found beneath the return value, and what it made of Run.
ReturnRecord(call, r) ==
  [call |-> call,
   value |-> run.valueStack[Len(run.valueStack)],
   beneath |-> SubSeq(run.valueStack, Len(run.valueStack) - 2,
                      Len(run.valueStack) - 1),
   opCurrent |-> r.opCurrent,
   constantCurrent |-> r.constantCurrent,
   valueStack |-> r.valueStack,
   localsOffsets |-> Len(r.localsOffsets),
   callStack |-> Len(r.callStack),
   localsList |-> Len(r.localsList)]

\* The observer after the current op, which took Run to r.
Recorded(h, r) ==
  Observe([h EXCEPT
             !.op = CurrentOp,
             !.before = run,
             !.calls = IF CurrentOp = "Call" THEN Append(@, CallRecord)
                       ELSE IF CurrentOp = "Return" /\ @ # <<>> THEN Front(@)
                       ELSE @,
             !.returned = IF CurrentOp = "Return" /\ h.calls # <<>>
                          THEN @ \cup {ReturnRecord(Last(h.calls), r)}
                          ELSE @],
          r)

\* The op ran to its `break`.
Continue(r) ==
  /\ run' = r
  /\ history' = Recorded(history, r)
  /\ UNCHANGED <<Frame, phase, result, raised, output>>

----------------------------------------------------------------------------
(* Operand handling (HandleAddition, HandleLess, ... and Value equality).  *)
(* Integers with integers; text with text for + and the comparisons.       *)

ArithmeticOps == {"Add", "Subtract", "Multiply", "Divide", "Mod"}
ComparisonOps == {"Greater", "GreaterEqual", "Less", "LessEqual"}
EqualityOps == {"Equal", "NotEqual"}

\* Truncating division and its remainder, as C++ computes them.
Quot(a, b) ==
  LET q == (IF a < 0 THEN -a ELSE a) \div (IF b < 0 THEN -b ELSE b)
  IN IF (a < 0) = (b < 0) THEN q ELSE -q
Rem(a, b) == a - b * Quot(a, b)

\* [ok, v]: whether the operands are accepted, and the value pushed.
HandleArithmetic(op, c1, c2) ==
  IF c1.t = "Int" /\ c2.t = "Int"
  THEN CASE op = "Add" -> [ok |-> TRUE, v |-> IntV(c1.v + c2.v)]
         [] op = "Subtract" -> [ok |-> TRUE, v |-> IntV(c1.v - c2.v)]
         [] op = "Multiply" -> [ok |-> TRUE, v |-> IntV(c1.v * c2.v)]
         [] op = "Divide" -> IF c2.v = 0 THEN [ok |-> FALSE, v |-> NullV]
                             ELSE [ok |-> TRUE, v |-> IntV(Quot(c1.v, c2.v))]
         [] op = "Mod" -> IF c2.v = 0 THEN [ok |-> FALSE, v |-> NullV]
                          ELSE [ok |-> TRUE, v |-> IntV(Rem(c1.v, c2.v))]
  ELSE IF op = "Add" /\ c1.t = "String" /\ c2.t = "String"
  THEN [ok |-> TRUE, v |-> StrV(10 * c1.v + c2.v)]
  ELSE [ok |-> FALSE, v |-> NullV]

HandleComparison(op, c1, c2) ==
  IF c1.t = c2.t /\ c1.t \in {"Int", "String"}
  THEN [ok |-> TRUE,
        v |-> BoolV(CASE op = "Greater" -> c1.v > c2.v
                      [] op = "GreaterEqual" -> c1.v >= c2.v
                      [] op = "Less" -> c1.v < c2.v
                      [] op = "LessEqual" -> c1.v <= c2.v)]
  ELSE [ok |-> FALSE, v |-> NullV]

HandleEquality(op, c1, c2) ==
  IF op = "Equal" THEN BoolV(c1 = c2) ELSE BoolV(c1 # c2)

----------------------------------------------------------------------------
(* What the current op needs in order to have defined behaviour.  "ub":    *)
(* it reads or pops what is not there (an empty vector or stack, an index  *)
(* past the end).  "throw": Value::Get on the wrong alternative, which     *)
(* ends the process.  "none": the op executes as written.                  *)

IsInt(x) == x.t = "Int"

\* The op ends in VM::RuntimeError, which reads callStack.back().
Raises ==
  CASE CurrentOp \in ArithmeticOps ->
         Depth >= 2 /\ ~HandleArithmetic(CurrentOp, run.valueStack[Depth - 1], Top).ok
    [] CurrentOp \in ComparisonOps ->
         Depth >= 2 /\ ~HandleComparison(CurrentOp, run.valueStack[Depth - 1], Top).ok
    [] CurrentOp = "Call" ->
         /\ HasConstants(1) /\ IsInt(Constant(1))
         /\ \/ FunctionIndex(functionList, Constant(1).v) = 0
            \/ /\ HasConstants(2) /\ IsInt(Constant(2))
               /\ Constant(2).v # functionList[FunctionIndex(functionList, Constant(1).v)].arity
    [] CurrentOp = "Assert" -> Depth >= 1 /\ ~AsBool(Top)
    [] CurrentOp = "AssertWithMessage" ->
         Depth >= 1 /\ ~AsBool(Top) /\ HasConstants(1) /\ Constant(1).t = "String"
    [] OTHER -> FALSE

LocalInRange(id) ==
  run.localsOffsets # <<>> /\ LocalIndex(id) \in 1..Len(run.localsList)

Fault ==
  CASE Raises /\ run.callStack = <<>> -> "ub"
    [] CurrentOp \in ArithmeticOps \cup ComparisonOps \cup EqualityOps ->
         IF Depth >= 2 THEN "none" ELSE "ub"
    [] CurrentOp \in {"Pop", "Print", "PrintLn", "Assert"} ->
         IF Depth >= 1 THEN "none" ELSE "ub"
    [] CurrentOp = "LoadConstant" -> IF HasConstants(1) THEN "none" ELSE "ub"
    [] CurrentOp = "LoadLocal" ->
         IF ~HasConstants(1) THEN "ub"
         ELSE IF ~IsInt(Constant(1)) THEN "throw"
         ELSE IF LocalInRange(Constant(1).v) THEN "none" ELSE "ub"
    [] CurrentOp = "AssignLocal" ->
         IF Depth = 0 \/ ~HasConstants(1) THEN "ub"
         ELSE IF ~IsInt(Constant(1)) THEN "throw"
         ELSE IF LocalInRange(Constant(1).v) THEN "none" ELSE "ub"
    [] CurrentOp = "PopLocal" -> IF run.localsList # <<>> THEN "none" ELSE "ub"
    [] CurrentOp = "DeclareLocal" -> "none"
    [] CurrentOp = "Jump" ->
         IF ~HasConstants(2) THEN "ub"
         ELSE IF ~IsInt(Constant(1)) \/ ~IsInt(Constant(2)) THEN "throw"
         ELSE IF run.opOffsets = <<>> \/ run.constantOffsets = <<>> THEN "ub"
         ELSE "none"
    [] CurrentOp = "JumpIfFalse" ->
         IF ~HasConstants(2) THEN "ub"
         ELSE IF ~IsInt(Constant(1)) \/ ~IsInt(Constant(2)) THEN "throw"
         ELSE IF Depth = 0 THEN "ub"
         ELSE IF ~AsBool(Top) /\ (run.opOffsets = <<>> \/ run.constantOffsets = <<>>)
         THEN "ub"
         ELSE "none"
    [] CurrentOp = "Call" ->
         IF ~HasConstants(1) THEN "ub"
         ELSE IF ~IsInt(Constant(1)) THEN "throw"
         ELSE IF FunctionIndex(functionList, Constant(1).v) = 0 THEN "none"
         ELSE IF ~HasConstants(2) THEN "ub"
         ELSE IF ~IsInt(Constant(2)) THEN "throw"
         ELSE IF Raises THEN "none"
         ELSE IF Depth < Constant(2).v THEN "ub"
         ELSE "none"
    [] CurrentOp = "Return" ->
         IF Depth = 0 \/ run.callStack = <<>> \/ Depth < 3 THEN "ub"
         ELSE IF ~IsInt(run.valueStack[Depth - 1]) \/ ~IsInt(run.valueStack[Depth - 2])
         THEN "throw"
         ELSE IF run.localsOffsets = <<>> \/ run.opOffsets = <<>>
                 \/ run.constantOffsets = <<>>
         THEN "ub"
         ELSE "none"
    [] CurrentOp = "AssertWithMessage" ->
         IF Depth = 0 \/ ~HasConstants(1) THEN "ub"
         ELSE IF Constant(1).t # "String" THEN "throw"
         ELSE "none"
    [] OTHER -> "none"

----------------------------------------------------------------------------
(* The opcodes.                                                            *)

Ready(ops) == InLoop /\ CurrentOp \in ops /\ Fault = "none"

\* Ops::Add, Subtract, Multiply, Divide, Mod
OpArithmetic ==
  /\ Ready(ArithmeticOps)
  /\ LET h == HandleArithmetic(CurrentOp, run.valueStack[Depth - 1], Top)
     IN IF h.ok
        THEN Continue([Fetched EXCEPT !.valueStack = Append(Popped(2), h.v)])
        ELSE ReturnErr([Fetched EXCEPT !.valueStack = Popped(2)], "InvalidOperand")

\* Ops::Greater, GreaterEqual, Less, LessEqual
OpComparison ==
  /\ Ready(ComparisonOps)
  /\ LET h == HandleComparison(CurrentOp, run.valueStack[Depth - 1], Top)
     IN IF h.ok
        THEN Continue([Fetched EXCEPT !.valueStack = Append(Popped(2), h.v)])
        ELSE ReturnErr([Fetched EXCEPT !.valueStack = Popped(2)], "InvalidOperand")

\* Ops::Equal, NotEqual
OpEquality ==
  /\ Ready(EqualityOps)
  /\ Continue([Fetched EXCEPT !.valueStack =
                 Append(Popped(2),
                        HandleEquality(CurrentOp, run.valueStack[Depth - 1], Top))])

\* Ops::LoadConstant
OpLoadConstant ==
  /\ Ready({"LoadConstant"})
  /\ Continue([Fetched EXCEPT !.valueStack = Append(@, Constant(1)),
                              !.constantCurrent = @ + 1])

\* Ops::LoadLocal
OpLoadLocal ==
  /\ Ready({"LoadLocal"})
  /\ Continue([Fetched EXCEPT
                 !.valueStack = Append(@, run.localsList[LocalIndex(Constant(1).v)]),
                 !.constantCurrent = @ + 1])

\* Ops::Pop
OpPop ==
  /\ Ready({"Pop"})
  /\ Continue([Fetched EXCEPT !.valueStack = Popped(1)])

\* Ops::PopLocal
OpPopLocal ==
  /\ Ready({"PopLocal"})
  /\ Continue([Fetched EXCEPT !.localsList = Front(@)])

\* Ops::Print, Ops::PrintLn: the top of the stack is printed and stays.
OpPrint ==
  /\ Ready({"Print", "PrintLn"})
  /\ run' = Fetched
  /\ output' = Append(output, Top)
  /\ history' = Recorded(history, Fetched)
  /\ UNCHANGED <<Frame, phase, result, raised>>

\* The arguments of a call, popped into the callee's parameter slots.
BindArguments(locals, stack, arity) ==
  locals \o SubSeq(stack, Len(stack) - arity + 1, Len(stack))

\* The frame Ops::Call sets up for the callee.
CallFrame(calleeNameHash, calleeFunc, arity) ==
  [Fetched EXCEPT
     !.localsOffsets = Append(@, Len(run.localsList)),
     !.localsList = BindArguments(@, run.valueStack, arity),
     !.callStack = Append(@, <<run.funcNameHash, calleeNameHash>>),
     !.valueStack = Popped(arity) \o
                    <<IntV(run.opCurrent + 1), IntV(run.constantCurrent + 2)>>,
     !.opCurrent = calleeFunc.opIndexStart,
     !.constantCurrent = calleeFunc.constantIndexStart,
     !.opOffsets = Append(@, calleeFunc.opIndexStart),
     !.constantOffsets = Append(@, calleeFunc.constantIndexStart),
     !.funcNameHash = calleeNameHash]

\* An Ops::Call that does not compare the argument count with the arity.
OpCallUnchecked ==
  /\ Ready({"Call"})
  /\ IF FunctionIndex(functionList, Constant(1).v) = 0
     THEN ReturnErr([Fetched EXCEPT !.constantCurrent = @ + 1], "FunctionNotFound")
     ELSE Continue(CallFrame(Constant(1).v,
                             functionList[FunctionIndex(functionList, Constant(1).v)],
                             Constant(2).v))

\* Ops::Call
OpCall ==
  /\ Ready({"Call"})
  /\ LET calleeNameHash == Constant(1).v
         it == FunctionIndex(functionList, calleeNameHash)
     IN IF it = 0
        THEN ReturnErr([Fetched EXCEPT !.constantCurrent = @ + 1], "FunctionNotFound")
        ELSE LET calleeFunc == functionList[it]
                 arity == calleeFunc.arity
                 numArgsGiven == Constant(2).v
             IN IF numArgsGiven # arity
                THEN ReturnErr([Fetched EXCEPT !.constantCurrent = @ + 2],
                               "IncorrectArgCount")
                ELSE Continue(CallFrame(calleeNameHash, calleeFunc, arity))

\* An Ops::AssignLocal that reads the top of the stack and leaves it there.
OpAssignLocalKeeping ==
  /\ Ready({"AssignLocal"})
  /\ Continue([Fetched EXCEPT
                 !.localsList[LocalIndex(Constant(1).v)] = Top,
                 !.constantCurrent = @ + 1])

\* Ops::AssignLocal
OpAssignLocal ==
  /\ Ready({"AssignLocal"})
  /\ Continue([Fetched EXCEPT
                 !.valueStack = Popped(1),
                 !.localsList[LocalIndex(Constant(1).v)] = Top,
                 !.constantCurrent = @ + 1])

\* Ops::DeclareLocal
OpDeclareLocal ==
  /\ Ready({"DeclareLocal"})
  /\ Continue([Fetched EXCEPT !.localsList = Append(@, NullV)])

\* Ops::Jump
OpJump ==
  /\ Ready({"Jump"})
  /\ Continue([Fetched EXCEPT
                 !.opCurrent = Constant(2).v + Last(run.opOffsets),
                 !.constantCurrent = Constant(1).v + Last(run.constantOffsets)])

\* An Ops::JumpIfFalse that pulls its two operands only when it jumps.
OpJumpIfFalseLazy ==
  /\ Ready({"JumpIfFalse"})
  /\ IF ~AsBool(Top)
     THEN Continue([Fetched EXCEPT
                      !.valueStack = Popped(1),
                      !.opCurrent = Constant(2).v + Last(run.opOffsets),
                      !.constantCurrent = Constant(1).v + Last(run.constantOffsets)])
     ELSE Continue([Fetched EXCEPT !.valueStack = Popped(1)])

\* Ops::JumpIfFalse
OpJumpIfFalse ==
  /\ Ready({"JumpIfFalse"})
  /\ IF ~AsBool(Top)
     THEN Continue([Fetched EXCEPT
                      !.valueStack = Popped(1),
                      !.opCurrent = Constant(2).v + Last(run.opOffsets),
                      !.constantCurrent = Constant(1).v + Last(run.constantOffsets)])
     ELSE Continue([Fetched EXCEPT !.valueStack = Popped(1),
                                   !.constantCurrent = @ + 2])

\* Ops::Return
OpReturn ==
  /\ Ready({"Return"})
  /\ Continue([Fetched EXCEPT
                 !.funcNameHash = Last(run.callStack)[1],
                 !.callStack = Front(@),
                 !.constantCurrent = SizeT(run.valueStack[Depth - 1].v),
                 !.opCurrent = SizeT(run.valueStack[Depth - 2].v),
                 !.valueStack = Append(Popped(3), Top),
                 !.localsOffsets = Front(@),
                 !.opOffsets = Front(@),
                 !.constantOffsets = Front(@)])

\* The error a failed assertion is reported with.
AssertError == "AssertionFailed"

\* Ops::Assert
OpAssert ==
  /\ Ready({"Assert"})
  /\ IF ~AsBool(Top)
     THEN ReturnAssertFailed([Fetched EXCEPT !.valueStack = Popped(1)], AssertError)
     ELSE Continue([Fetched EXCEPT !.valueStack = Popped(1)])

\* Ops::AssertWithMessage
OpAssertWithMessage ==
  /\ Ready({"AssertWithMessage"})
  /\ IF ~AsBool(Top)
     THEN ReturnAssertFailed([Fetched EXCEPT !.valueStack = Popped(1),
                                             !.constantCurrent = @ + 1], AssertError)
     ELSE Continue([Fetched EXCEPT !.valueStack = Popped(1),
                                   !.constantCurrent = @ + 1])

\* An op whose behaviour the language leaves undefined: the build may stop
\* there or carry on with garbage.  A throwing Value::Get ends the process.
Misbehave ==
  /\ InLoop
  /\ Fault # "none"
  /\ run' = Fetched
  /\ phase' = "Done"
  /\ result' \in (IF Fault = "ub" THEN {"Crashed", "Undefined"} ELSE {"Crashed"})
  /\ history' = [history EXCEPT !.op = "Undefined", !.before = run]
  /\ UNCHANGED <<Frame, raised, output>>

\* The loop of VM::Run is left: the locals are cleared, RuntimeOk returned.
RunExit ==
  /\ phase = "Run"
  /\ run.opCurrent >= Len(fullOpList)
  /\ run' = [run EXCEPT !.localsList = <<>>]
  /\ phase' = "Done"
  /\ result' = "RuntimeOk"
  /\ UNCHANGED <<Frame, raised, output, history>>

----------------------------------------------------------------------------
(* GraceDictionary (src/src/objects/grace_dictionary.cpp): an open         *)
(* addressing hash table.  m_Data holds a key-value pair or a Null in each *)
(* cell; only the keys matter here.                                        *)

s_InitialCapacity == 8

\* A GraceKeyValuePair object with the given key and value, as a cell of
\* m_Data.
KeyValuePair(key, value) == [t |-> "Object", v |-> key, value |-> IntV(value)]

\* GraceDictionary::GraceDictionary().  Beside the members the record holds
\* what the observer notes of the last Insert: the value it returned, the
\* steps its probe loops took, whether one of them went round the whole
\* table without finding its cell (it then never ends), and whether a probe
\* loop was started on a table with no free cell.
NewDictionary ==
  [m_Data |-> [i \in 1..s_InitialCapacity |-> NullV],
   m_CellStates |-> [i \in 1..s_InitialCapacity |-> "NeverUsed"],
   m_Size |-> 0,
   returned |-> FALSE, probes |-> 0, endless |-> FALSE, probedFull |-> FALSE]

\* m_Hasher(key) for an integer key.
Hasher(key) == key

\* GraceDictionary::AsBool
DictionaryAsBool(d) == d.m_Data # <<>>

\* GraceDictionary::ToVector
ToVector(d) == SelectSeq(d.m_Data, LAMBDA value : value.t # "Null")

\* GraceDictionary::Get: the value of the first cell of m_Data that holds the
\* key, Null when there is none.
RECURSIVE GetFrom(_, _, _)
GetFrom(d, i, key) ==
  IF i > Len(d.m_Data) THEN NullV
  ELSE IF d.m_Data[i].t # "Null" /\ d.m_Data[i].v = key THEN d.m_Data[i].value
  ELSE GetFrom(d, i + 1, key)

Get(d, key) == GetFrom(d, 1, key)

\* The cell at index (from 0) is given the pair.
Occupy(d, index, pair) ==
  [d EXCEPT !.m_Data[index + 1] = pair, !.m_CellStates[index + 1] = "Occupied"]

\* No cell of the table is free for a probe loop to stop at.
Full(d) == \A i \in DOMAIN d.m_CellStates : d.m_CellStates[i] = "Occupied"

\* A probe loop is started.
StartProbe(d) == [d EXCEPT !.probedFull = @ \/ Full(d)]

\* The probe loops: i comes in as the index after the one looked at last.
\* A loop that has looked at every cell will look at them again for ever.
RECURSIVE RehashProbe(_, _, _)
RehashProbe(d, i, pair) ==
  LET j == IF i = Len(d.m_Data) THEN 0 ELSE i
      d1 == [d EXCEPT !.probes = @ + 1]
  IN IF d.probes >= Len(d.m_Data) THEN [d EXCEPT !.endless = TRUE]
     ELSE IF d.m_CellStates[j + 1] = "NeverUsed" THEN Occupy(d1, j, pair)
     ELSE RehashProbe(d1, j + 1, pair)

\* A Rehash that puts back every pair but the last.
RECURSIVE RehashPairsButLast(_, _)
RehashPairsButLast(d, pairs) ==
  IF Len(pairs) <= 1 THEN d
  ELSE LET index == Hasher(pairs[1].v) % Len(d.m_Data)
       IN RehashPairsButLast(IF d.m_CellStates[index + 1] = "NeverUsed"
                             THEN Occupy(d, index, pairs[1])
                             ELSE RehashProbe(StartProbe([d EXCEPT !.probes = 0]),
                                              index + 1, pairs[1]),
                             Tail(pairs))

\* GraceDictionary::Rehash, from the pairs on.
RECURSIVE RehashPairs(_, _)
RehashPairs(d, pairs) ==
  IF pairs = <<>> \/ d.endless THEN d
  ELSE LET index == Hasher(pairs[1].v) % Len(d.m_Data)
       IN RehashPairs(IF d.m_CellStates[index + 1] = "NeverUsed"
                      THEN Occupy(d, index, pairs[1])
                      ELSE RehashProbe(StartProbe([d EXCEPT !.probes = 0]),
                                       index + 1, pairs[1]),
                      Tail(pairs))

\* GraceDictionary::Rehash
Rehash(d) ==
  RehashPairs([d EXCEPT !.m_Data = [i \in DOMAIN d.m_Data |-> NullV],
                        !.m_CellStates = [i \in DOMAIN d.m_Data |-> "NeverUsed"]],
              ToVector(d))

\* A load check that never asks for growth.
TooFullNever(d) == FALSE

\* fullness > s_GrowFactor (0.75)
TooFull(d) == 4 * d.m_Size > 3 * Len(d.m_Data)

\* The resize of both vectors to twice their size.
Doubled(d) ==
  [d EXCEPT !.m_Data = @ \o [i \in 1..Len(d.m_Data) |-> NullV],
            !.m_CellStates = @ \o [i \in 1..Len(d.m_Data) |-> "NeverUsed"]]

\* The new pair goes into the cell at index; Insert returns true.
Put(d, index, key, value) ==
  [Occupy(d, index, KeyValuePair(key, value)) EXCEPT !.m_Size = @ + 1,
                                                      !.returned = TRUE]

\* A probe loop that takes the first free cell without looking at the keys
\* on its way.
RECURSIVE InsertProbeBlind(_, _, _, _)
InsertProbeBlind(d, i, key, value) ==
  LET j == IF i = Len(d.m_Data) THEN 0 ELSE i
      d1 == [d EXCEPT !.probes = @ + 1]
  IN IF d.probes >= Len(d.m_Data) THEN [d EXCEPT !.endless = TRUE]
     ELSE IF d.m_CellStates[j + 1] = "Occupied"
     THEN InsertProbeBlind(d1, j + 1, key, value)
     ELSE Put(d1, j, key, value)

RECURSIVE InsertProbe(_, _, _, _)
InsertProbe(d, i, key, value) ==
  LET j == IF i = Len(d.m_Data) THEN 0 ELSE i
      d1 == [d EXCEPT !.probes = @ + 1]
  IN IF d.probes >= Len(d.m_Data) THEN [d EXCEPT !.endless = TRUE]
     ELSE IF d.m_CellStates[j + 1] = "Occupied"
     THEN IF d.m_Data[j + 1].v = key THEN [d1 EXCEPT !.returned = FALSE]
          ELSE InsertProbe(d1, j + 1, key, value)
     ELSE Put(d1, j, key, value)

\* GraceDictionary::Insert, after the table has grown if it had to.
InsertAt(d, index, key, value) ==
  IF d.endless THEN d
  ELSE IF d.m_CellStates[index + 1] \in {"NeverUsed", "Tombstone"}
  THEN Put(d, index, key, value)
  ELSE IF d.m_Data[index + 1].v = key THEN [d EXCEPT !.returned = FALSE]
  ELSE InsertProbe(StartProbe(d), index + 1, key, value)

\* GraceDictionary::Insert: the dictionary it leaves.
Insert(d, key, value) ==
  IF TooFull(d)
  THEN InsertAt([Rehash(Doubled(d)) EXCEPT !.probes = 0],
                Hasher(key) % (2 * Len(d.m_Data)), key, value)
  ELSE InsertAt([d EXCEPT !.probes = 0], Hasher(key) % Len(d.m_Data), key, value)

\* The number of keys inserted, less one, and the values: 1 .. MaxValue.
MaxKey == 7
MaxValue == 2

\* No file is being compiled or run.
NoProgram ==
  /\ tokens = <<>>
  /\ phase = "Done"
  /\ compiler = NewCompiler(<<>>)
  /\ functionList = <<>>
  /\ fullOpList = <<>>
  /\ fullConstantList = <<>>
  /\ run = NoRun
  /\ result = "None"
  /\ raised = "None"
  /\ output = <<>>
  /\ history = NoHistory

Program == <<tokens, phase, compiler, functionList, fullOpList, fullConstantList,
             run, result, raised, output, history>>

\* The pairs the table holds.
Pairs(d) ==
  {[key |-> d.m_Data[i].v, value |-> d.m_Data[i].value.v] :
     i \in {i \in DOMAIN d.m_Data : d.m_Data[i].t # "Null"}}

\* What the observer keeps beside the object: the pairs whose Insert came
\* first for their key, and of the last call whether its key was absent
\* before it, whether it left the entries as they were, and whether it added
\* its pair to them and nothing else.
NewNoted ==
  [object |-> NewDictionary, stored |-> {},
   called |-> FALSE, absent |-> FALSE, kept |-> FALSE, added |-> FALSE]

Noted(d, key, value, e) ==
  [object |-> e,
   stored |-> IF \E p \in d.stored : p.key = key THEN d.stored
              ELSE d.stored \cup {[key |-> key, value |-> value]},
   called |-> TRUE,
   absent |-> ~\E p \in Pairs(d.object) : p.key = key,
   kept |-> Pairs(e) = Pairs(d.object),
   added |-> Pairs(e) = Pairs(d.object) \cup {[key |-> key, value |-> value]}]

\* The keys inserted: the first few numbers, each with a first cell of its
\* own, and two keys whose first cell is the last one both in the table of 8
\* cells and in the one of 16.
Keys ==
  (0..(MaxKey - 2)) \cup {2 * s_InitialCapacity - 1, 4 * s_InitialCapacity - 1}

\* A call of Insert with any key and value; nothing is inserted once a call
\* has not come back.
DictionaryInsert ==
  /\ ~dictionary.object.endless
  /\ \E key \in Keys, value \in 1..MaxValue :
       dictionary' = Noted(dictionary, key, value,
                           Insert(dictionary.object, key, value))
  /\ UNCHANGED <<Program, cli>>

----------------------------------------------------------------------------
(* main() (src/src/main.cpp): the loop over the command line.  An argument *)
(* is the sequence of its characters; args holds argv[1], argv[2], ...     *)

OptVersion == {<<"-", "-", "v", "e", "r", "s", "i", "o", "n">>, <<"-", "V">>}
OptHelp == {<<"-", "-", "h", "e", "l", "p">>, <<"-", "h">>}
OptVerbose == {<<"-", "-", "v", "e", "r", "b", "o", "s", "e">>, <<"-", "v">>}
OptWarningsError == {<<"-", "-", "w", "a", "r", "n", "i", "n", "g", "s", "-", "e", "r", "r", "o", "r">>, <<"-", "w", "e">>}

\* std::string::ends_with
EndsWith(text, suffix) ==
  /\ Len(text) >= Len(suffix)
  /\ SubSeq(text, Len(text) - Len(suffix) + 1, Len(text)) = suffix

DotGr == <<".", "g", "r">>

\* The locals of main() before the loop.
NewCommandLine(args) ==
  [args |-> args, i |-> 1, filePath |-> <<>>, verbose |-> FALSE,
   warningsError |-> FALSE, graceMainArgs |-> <<>>, appendToGraceArgs |-> FALSE,
   exit |-> "None"]

\* The command line is not being read.
NoCommandLine == [NewCommandLine(<<>>) EXCEPT !.exit = "Idle"]

\* The loop is at args[i].
AtArgument == cli.exit = "None" /\ cli.i <= Len(cli.args)
Argument == cli.args[cli.i]

\* graceMainArgs.push_back(args[i]), and on to the next argument.
Forward == [cli EXCEPT !.graceMainArgs = Append(@, Argument), !.i = @ + 1]

\* `return` from main with nothing run.
Exit(how) == [cli EXCEPT !.exit = how]

ArgVersion ==
  /\ AtArgument
  /\ Argument \in OptVersion
  /\ cli' = IF cli.appendToGraceArgs THEN Forward ELSE Exit("Version")
  /\ UNCHANGED <<Program, dictionary>>

\* A --help branch that prints the usage wherever the option stands.
ArgHelpAnywhere ==
  /\ AtArgument
  /\ Argument \in OptHelp
  /\ cli' = Exit("Help")
  /\ UNCHANGED <<Program, dictionary>>

ArgHelp ==
  /\ AtArgument
  /\ Argument \in OptHelp
  /\ cli' = IF cli.appendToGraceArgs THEN Forward ELSE Exit("Help")
  /\ UNCHANGED <<Program, dictionary>>

ArgVerbose ==
  /\ AtArgument
  /\ Argument \in OptVerbose
  /\ cli' = IF cli.appendToGraceArgs THEN Forward
            ELSE [cli EXCEPT !.verbose = TRUE, !.i = @ + 1]
  /\ UNCHANGED <<Program, dictionary>>

ArgWarningsError ==
  /\ AtArgument
  /\ Argument \in OptWarningsError
  /\ cli' = IF cli.appendToGraceArgs THEN Forward
            ELSE [cli EXCEPT !.warningsError = TRUE, !.i = @ + 1]
  /\ UNCHANGED <<Program, dictionary>>

IsOption(arg) == arg \in OptVersion \cup OptHelp \cup OptVerbose \cup OptWarningsError

ArgFile ==
  /\ AtArgument
  /\ ~IsOption(Argument)
  /\ EndsWith(Argument, DotGr)
  /\ cli' = IF cli.appendToGraceArgs THEN Forward
            ELSE [cli EXCEPT !.filePath = Argument, !.appendToGraceArgs = TRUE,
                             !.i = @ + 1]
  /\ UNCHANGED <<Program, dictionary>>

ArgOther ==
  /\ AtArgument
  /\ ~IsOption(Argument)
  /\ ~EndsWith(Argument, DotGr)
  /\ cli' = IF cli.appendToGraceArgs THEN Forward ELSE Exit("Unrecognised")
  /\ UNCHANGED <<Program, dictionary>>

\* After the loop: without a file main returns 1; a file that does not exist
\* is an error; otherwise the file is compiled with graceMainArgs.
ArgsDone ==
  /\ cli.exit = "None"
  /\ cli.i > Len(cli.args)
  /\ \E exists \in BOOLEAN :
       cli' = Exit(IF cli.args = <<>> THEN "Usage"
                   ELSE IF cli.filePath = <<>> THEN "NoFile"
                   ELSE IF ~exists THEN "FileNotFound"
                   ELSE "Compile")
  /\ UNCHANGED <<Program, dictionary>>

\* The arguments given: at most MaxArgs of these.
MaxArgs == 3

ArgPool ==
  {<<"-", "V">>, <<"-", "h">>, <<"-", "-", "h", "e", "l", "p">>, <<"-", "v">>, <<"-", "w", "e">>,
   <<"a", ".", "g", "r">>, <<".", "g", "r">>, <<"g", "r">>}

CommandLines == UNION {[1..n -> ArgPool] : n \in 0..MaxArgs}

----------------------------------------------------------------------------
(* The inputs: source files, as the words the scanner splits them into.    *)

\* Statements of the body of `main`.
StmtPool ==
  { <<"var", "a", "=", "1", ";">>,
    <<"final", "k", "=", "2", ";">>,
    <<"a", "=", "a", "+", "2", ";">>,
    <<"k", "=", "3", ";">>,
    <<"a", ";">>,
    <<"println", "(", "a", ")", ";">>,
    <<"if", "a", ">=", "2", ":", "var", "x", "=", "a", ";", "end">>,
    <<"if", "false", ":", "var", "x", "=", "2", ";", "end">>,
    <<"while", "a", "<", "3", ":", "a", "=", "a", "+", "1", ";", "end">>,
    <<"while", "true", ":", "var", "y", "=", "1", ";", "break", ";", "end">>,
    <<"for", "i", "in", "0", "..", "2", ":", "print", "(", "i", ")", ";", "end">>,
    <<"for", "k", "in", "0", "..", "1", ":", "end">>,
    <<"g", "(", "1", ")", ";">>,
    <<"main", "(", "1", ")", ";">>,
    <<"assert", "(", "a", "==", "1", ")", ";">>,
    <<"assert", "(", "false", ",", "'boom'", ")", ";">>,
    <<"a", "=", "1", "/", "0", ";">>,
    <<"break", ";">>,
    <<"print", "1", ";">>,
    <<"?", ";">> }

\* The bodies of at most n statements.
RECURSIVE Bodies(_)
Bodies(n) ==
  IF n = 0 THEN {<<>>}
  ELSE LET shorter == Bodies(n - 1)
       IN shorter \cup {b \o st : b \in shorter, st \in StmtPool}

MainOf(body) == <<"func", "main", "(", ")", ":">> \o body \o <<"end">>

\* Files that hold `main` alone.
MainPrograms == {MainOf(body) : body \in Bodies(MaxBody)}

\* Functions other than `main`.
HelperPool ==
  { <<"func", "f", "(", "p", ")", ":", "return", "p", "+", "1", ";", "end">>,
    <<"func", "f", "(", "p", ")", ":", "p", ";", "return", "1", ";", "end">>,
    <<"func", "f", "(", "p", ")", ":", "if", "p", ":", "return", "1", ";", "end",
      "println", "(", "p", ")", ";", "end">>,
    <<"func", "f", "(", "p", ")", ":", "return", ";", "end">>,
    <<"func", "f", "(", "p", ")", ":", "println", "(", "p", ")", ";", "end">>,
    <<"func", "f", "(", "final", "p", ")", ":", "p", "=", "2", ";", "end">>,
    <<"func", "f", "(", "p", ",", "q", ")", ":", "return", "p", "-", "q", ";",
      "end">>,
    <<"func", "f", "(", "p", ")", ":", "return", "p", ";", "end",
      "func", "g", "(", "p", ")", ":", "return", "f", "(", "p", ")", ";", "end">>,
    <<"func", "f", "(", "p", ")", ":", "end",
      "func", "f", "(", "p", ")", ":", "end">> }

\* Bodies of `main` that call the functions.
CallerPool ==
  { <<"var", "a", "=", "f", "(", "1", ")", ";", "println", "(", "a", ")", ";">>,
    <<"var", "a", "=", "0", ";", "a", "=", "f", "(", "a", ")", ";">>,
    <<"f", "(", "3", ",", "1", ")", ";">>,
    <<"println", "(", "g", "(", "2", ")", ")", ";">>,
    <<"f", "(", "g", "(", "2", ")", ")", ";">> }

\* Files in which a function is declared inside `main`, or after it.
NestedPrograms ==
  { <<"func", "main", "(", ")", ":", "var", "a", "=", "1", ";",
      "f", "(", "7", ")", ";",
      "func", "f", "(", "p", ")", ":", "println", "(", "p", ")", ";", "end",
      "end">>,
    <<"func", "main", "(", ")", ":", "f", "(", "7", ")", ";", "end",
      "func", "f", "(", "p", ")", ":", "println", "(", "p", ")", ";", "end">>,
    <<"func", "f", "(", ")", ":", "return", "1", ";", "end">>,
    <<"var", "a", "=", "1", ";">> }

\* Files that define `f` a second time, with and without the colon of the
\* second signature.
DuplicatePrograms ==
  {<<"func", "f", "(", ")", ":", "end",
     "func", "g", "(", ")", ":", "end",
     "func", "f", "(", "p", ")">> \o t \o MainOf(<<>>) :
   t \in {<<":", "end">>, <<"end">>}}

\* Files about loops, `break` and `if` chains.
ControlPrograms ==
  { MainOf(<<"final", "k", "=", "2", ";",
             "for", "k", "in", "0", "..", "1", ":", "end",
             "var", "z", "=", "1", ";", "break", ";">>),
    MainOf(<<"var", "a", "=", "0", ";",
             "while", "a", "<", "2", ":",
               "while", "a", "<", "9", ":", "break", ";", "print", "(", "a", ")", ";",
               "end",
               "a", "=", "a", "+", "1", ";",
               "if", "a", "==", "1", ":", "break", ";", "end",
             "end",
             "println", "(", "a", ")", ";">>),
    MainOf(<<"while", "false", ":", "end",
             "for", "i", "in", "0", "..", "3", ":",
               "for", "j", "in", "0", "..", "1", ":", "end",
               "break", ";", "print", "(", "i", ")", ";",
             "end",
             "println", "(", "1", ")", ";">>),
    <<"func", "g", "(", "n", ")", ":", "var", "a", "=", "0", ";", "var", "m", "=", "1", ";",
        "while", "a", "<", "n", ":",
          "if", "a", "<", "m", ":", "a", "=", "m", ";",
          "else", ":", "break", ";", "end",
        "end",
        "return", "a", ";", "end">>
      \o MainOf(<<"println", "(", "g", "(", "3", ")", ")", ";">>),
    <<"func", "f", "(", ")", ":", "end",
      "func", "g", "(", ")", ":", "print", "(", "1", ")", ";", "end">>
      \o MainOf(<<"f", "(", ")", ";", "g", "(", ")", ";">>),
    MainOf(<<"var", "a", "=", "1", ";">>)
      \o <<"func", "f", "(", ")", ":", "while", "true", ":", "break", ";", "end",
           "end">>,
    MainOf(<<"var", "a", "=", "1", ";">>)
      \o <<"func", "f", "(", ")", ":", "while", "false", ":", "end", "end">> }

\* Files with something other than a function at top level.
TopLevelPrograms ==
  {MainOf(<<>>) \o d :
     d \in {<<"assert", "(", "false", ",", "'boom'", ")", ";">>,
            <<"var", "a", "=", "1", ";">>,
            <<"final", "a", "=", "1", ";">>,
            <<"break", ";">>,
            <<"println", "(", "1", ")", ";">>,
            <<"while", "true", ":", "end">>,
            <<"a", "=", "1", ";">>}}

\* Files with an if / else if / else chain, for each way through it, with
\* and without the final else, and one behind a main that has a body.
IfPrograms ==
  {MainOf(<<"var", "a", "=", x, ";",
            "if", "a", "==", "2", ":", "print", "(", "a", ")", ";",
            "else", "if", "a", "==", "1", ":", "println", "(", "a", ")", ";">>
          \o tail \o <<"println", "(", "a", ")", ";">>) :
     x \in {"1", "2", "3"},
     tail \in {<<"else", ":", "a", ";", "end">>, <<"end">>}}
  \cup {MainOf(<<"var", "a", "=", "1", ";">>)
          \o <<"func", "f", "(", "p", ")", ":",
               "if", b, ":", "print", "(", "p", ")", ";", "end", "end">> :
        b \in {"true", "false"}}

\* Files whose main is `for i in lo .. hi [by step]: print(i); end`.
ForPrograms ==
  {MainOf(<<"for", "i", "in", lo, "..", hi>> \o by
          \o <<":", "print", "(", "i", ")", ";", "end">>) :
     lo \in {"0", "1", "2", "3"}, hi \in {"0", "2", "3"},
     by \in {<<>>, <<"by", "2">>}}

\* Files with an error token behind an error, with and without a faulty
\* statement after it.
PanicPrograms ==
  {MainOf(<<"break", "1", "?", ";">> \o t) : t \in {<<>>, <<"var", ";">>}}

\* Files that initialise x with a chain of two operators that begins with
\* a literal and y with the same chain beginning with an identifier.
ChainOperators == {"or", "and", "==", "!=", "<", "+", "*"}

ExpressionPrograms ==
  {MainOf(<<"var", "a", "=", "1", ";",
            "var", "x", "=", "1", o[1], "a", o[2], "a", ";",
            "var", "y", "=", "a", o[1], "a", o[2], "a", ";">>) :
     o \in [1..2 -> ChainOperators]}

\* Files with a literal at the start of a statement that follows a `;`, in
\* the body of main and in the body of a loop.
StallPrograms ==
  { MainOf(<<"var", "a", "=", "1", ";", "1", ";">>),
    MainOf(<<"while", "true", ":", "var", "a", "=", "1", ";", "2", ";", "end">>) }

\* Files with a `return` in a loop of a function other than main.
ReturnPrograms ==
  { <<"func", "f", "(", "p", ")", ":">> \o loop \o <<"end", "end">> \o MainOf(<<>>) :
      loop \in { <<"while", "p", ":", "return", "1", ";">>,
                 <<"for", "k", "in", "0", "..", "1", ":", "return", ";">> } }

\* Files that print a local declared by `var x;` before they assign to it:
\* first thing in main, after a call has returned, and in a loop body.
UninitialisedPrograms ==
  { MainOf(<<"var", "x", ";", "print", "(", "x", ")", ";", "x", "=", "7", ";">>),
    <<"func", "f", "(", "p", ")", ":", "end">>
      \o MainOf(<<"f", "(", "1", ")", ";", "var", "x", ";",
                  "print", "(", "x", ")", ";">>),
    MainOf(<<"var", "a", "=", "0", ";",
             "while", "a", "<", "2", ":",
               "var", "x", ";", "print", "(", "x", ")", ";", "x", "=", "7", ";",
               "a", "=", "a", "+", "1", ";",
             "end">>) }

Programs ==
  MainPrograms
  \cup UninitialisedPrograms
  \cup ExpressionPrograms
  \cup StallPrograms
  \cup ReturnPrograms
  \cup PanicPrograms
  \cup ForPrograms
  \cup IfPrograms
  \cup TopLevelPrograms
  \cup {h \o MainOf(b) : h \in HelperPool, b \in CallerPool}
  \cup NestedPrograms
  \cup DuplicatePrograms
  \cup ControlPrograms

----------------------------------------------------------------------------

Init ==
  /\ tokens \in {Lex(p) : p \in Programs}
  /\ phase = "Compile"
  /\ compiler = [NewCompiler(tokens) EXCEPT !.tokens = <<>>]
  /\ functionList = <<>>
  /\ fullOpList = <<>>
  /\ fullConstantList = <<>>
  /\ run = NoRun
  /\ result = "None"
  /\ raised = "None"
  /\ output = <<>>
  /\ history = NoHistory
  /\ dictionary = NewNoted
  /\ cli = NoCommandLine

Next ==
  \/ Compile
  \/ CombineFunctions
  \/ RunStart
  \/ OpArithmetic
  \/ OpComparison
  \/ OpEquality
  \/ OpLoadConstant
  \/ OpLoadLocal
  \/ OpPop
  \/ OpPopLocal
  \/ OpPrint
  \/ OpCall
  \/ OpAssignLocal
  \/ OpDeclareLocal
  \/ OpJump
  \/ OpJumpIfFalse
  \/ OpReturn
  \/ OpAssert
  \/ OpAssertWithMessage
  \/ Misbehave
  \/ RunExit

Spec == Init /\ [][Next]_vars

\* A dictionary from its construction on, with keys inserted in any order.
DictionaryInit == NoProgram /\ dictionary = NewNoted /\ cli = NoCommandLine
DictionaryNext == DictionaryInsert
DictionarySpec == DictionaryInit /\ [][DictionaryNext]_vars

\* main() with any command line.
CommandLineInit ==
  /\ NoProgram
  /\ dictionary = NewNoted
  /\ cli \in {NewCommandLine(args) : args \in CommandLines}

CommandLineNext ==
  \/ ArgVersion
  \/ ArgHelp
  \/ ArgVerbose
  \/ ArgWarningsError
  \/ ArgFile
  \/ ArgOther
  \/ ArgsDone

CommandLineSpec == CommandLineInit /\ [][CommandLineNext]_vars

----------------------------------------------------------------------------
(* The properties.                                                         *)

\* The compiler reported nothing and stopped normally.
CompiledClean ==
  phase # "Compile" /\ ~compiler.hadError /\ ~compiler.crashed /\ ~compiler.hung

\* C1: value-stack balance.  When a program that compiled without error
\* ends normally (RuntimeOk), the value stack is empty at the moment the
\* fetch-execute loop is left.
ValueStackBalance ==
  (CompiledClean /\ result = "RuntimeOk") => run.valueStack = <<>>

\* C2: locals balance.  For every block (if, while, for) left at runtime,
\* the length of the locals vector at the exit equals its length at the
\* entry, whichever path was taken through the block.
LocalsBalance == \A b \in history.exited : b.exit = b.entry

\* C3: after an error-free compilation the op list of every function ends
\* with an explicit Return.
EveryFunctionEndsWithReturn ==
  CompiledClean =>
    \A i \in DOMAIN functionList :
      /\ functionList[i].ops # <<>>
      /\ functionList[i].ops[Len(functionList[i].ops)] = "Return"

\* C4: Return is the inverse of Call.  For every Return that answers a
\* Call: the two values beneath the return value were the cursor pair the
\* Call pushed; afterwards the op cursor is at the op after the Call, the
\* constant cursor after the Call's two operands, one locals offset and one
\* call-stack frame are gone, and the value stack is the caller's stack
\* before the arguments were pushed plus the return value.
ReturnInverseOfCall ==
  \A x \in history.returned :
    /\ x.beneath = <<IntV(x.call.opCurrent), IntV(x.call.constantCurrent)>>
    /\ x.opCurrent = x.call.opCurrent
    /\ x.constantCurrent = x.call.constantCurrent
    /\ x.localsOffsets = x.call.localsOffsets
    /\ x.callStack = x.call.callStack
    /\ x.valueStack = Append(x.call.valueStack, x.value)

\* The function Run is in, and the arguments the last op found on the stack.
Callee == functionList[FunctionIndex(functionList, run.funcNameHash)]
ArgumentsGiven(n) ==
  SubSeq(history.before.valueStack, Len(history.before.valueStack) - n + 1,
         Len(history.before.valueStack))

\* C5: argument binding.  After a Call with as many arguments as the callee
\* has parameters, the callee's frame base is the length the locals had
\* before the call, locals[base + i] holds the i-th argument, which is the
\* slot the compiler gave to the i-th parameter, and the arguments are no
\* longer on the value stack.
ArgumentBinding ==
  (history.op = "Call" /\ phase = "Run") =>
    /\ run.localsOffsets # <<>>
    /\ run.localsOffsets[Len(run.localsOffsets)] = Len(history.before.localsList)
    /\ Len(run.localsList) = Len(history.before.localsList) + Callee.arity
    /\ \A i \in 1..Callee.arity :
         /\ run.localsList[Len(history.before.localsList) + i] =
              ArgumentsGiven(Callee.arity)[i]
         /\ Callee.paramSlots[i] = i - 1
    /\ run.valueStack =
         SubSeq(history.before.valueStack, 1,
                Len(history.before.valueStack) - Callee.arity)
         \o <<IntV(history.before.opCurrent + 1),
              IntV(history.before.constantCurrent + 2)>>

\* The locals index the AssignLocal executed last was aimed at.
AssignedIndex ==
  history.before.localsOffsets[Len(history.before.localsOffsets)]
  + fullConstantList[history.before.constantCurrent + 1].v + 1

CompileErrorStopsVm ==
  compiler.diagnostics # <<>> =>
    /\ compiler.hadError
    /\ phase = "Done"
    /\ result \in {"CompileError", "Crashed", "Hung"}
    /\ run = NoRun
    /\ history = NoHistory
    /\ fullOpList = <<>>

CompileErrorReported ==
  /\ compiler.diagnostics # <<>>
  /\ result = "CompileError"
  /\ functionList # <<>>
  /\ functionList[1].ops # <<>>

\* C9: every runtime error is fatal.  Once an op has raised a runtime error
\* it is the last op executed; Run returns RuntimeAssertionFailed exactly
\* when a failed Assert or AssertWithMessage stopped it, RuntimeError for
\* every other runtime error, and RuntimeOk only when none was raised.
RuntimeErrorsFatal ==
  /\ raised # "None" =>
       /\ phase = "Done"
       /\ run.steps = history.before.steps + 1
       /\ result = IF history.op \in {"Assert", "AssertWithMessage"}
                   THEN "RuntimeAssertionFailed"
                   ELSE "RuntimeError"
  /\ result = "RuntimeAssertionFailed" =>
       raised # "None" /\ history.op \in {"Assert", "AssertWithMessage"}
  /\ result = "RuntimeError" => raised # "None"
  /\ result = "RuntimeOk" => raised = "None"

AssertionStoppedRun ==
  /\ raised # "None"
  /\ history.op = "AssertWithMessage"
  /\ result = "RuntimeAssertionFailed"
  /\ output # <<>>

\* What the Call executed last named: the callee's place in the function
\* table (0: not there) and the number of arguments.
CalledIndex ==
  FunctionIndex(functionList, fullConstantList[history.before.constantCurrent + 1].v)
CalledWith == fullConstantList[history.before.constantCurrent + 2].v

\* The Call executed last left the frames, the offsets and the function of
\* the caller as they were, allocated no local and went to the next op.
NothingTransferred ==
  /\ run.callStack = history.before.callStack
  /\ run.localsOffsets = history.before.localsOffsets
  /\ run.opOffsets = history.before.opOffsets
  /\ run.constantOffsets = history.before.constantOffsets
  /\ run.funcNameHash = history.before.funcNameHash
  /\ run.opCurrent = history.before.opCurrent + 1
  /\ Len(run.localsList) <= Len(history.before.localsList)

\* C10: a Call whose callee is not in the function table stops the VM with
\* FunctionNotFound, a Call whose argument count differs from the callee's
\* arity stops it with IncorrectArgCount; in both cases no locals are
\* allocated, no frame or offset is pushed and control stays with the caller.
CallErrorsTransferNothing ==
  /\ (history.op = "Call" /\ CalledIndex = 0) =>
       /\ phase = "Done" /\ result = "RuntimeError" /\ raised = "FunctionNotFound"
       /\ NothingTransferred
  /\ (history.op = "Call" /\ CalledIndex # 0
      /\ CalledWith # functionList[CalledIndex].arity) =>
       /\ phase = "Done" /\ result = "RuntimeError" /\ raised = "IncorrectArgCount"
       /\ NothingTransferred
  /\ raised \in {"FunctionNotFound", "IncorrectArgCount"} => history.op = "Call"

CallOfUnknownFunction ==
  /\ history.op = "Call"
  /\ CalledIndex = 0
  /\ raised = "FunctionNotFound"
  /\ history.before.valueStack # <<>>

----------------------------------------------------------------------------
(* Control flow: break, if, while, for, jumps and the linked image.        *)

\* The functions whose ops occupy position p of m_FullOpList.
FunctionsAt(p) ==
  {i \in 1..Len(functionList) :
     /\ functionList[i].opIndexStart <= p
     /\ p < functionList[i].opIndexStart + Len(functionList[i].ops)}

\* The op just executed was fetched at position `at` of function i.
Executed(op, i, at) ==
  /\ phase = "Run"
  /\ history.op = op
  /\ i \in FunctionsAt(history.before.opCurrent)
  /\ at = history.before.opCurrent - functionList[i].opIndexStart

\* Both cursors are at (op, const) of function i.
CursorsAt(i, op, const) ==
  /\ run.opCurrent = functionList[i].opIndexStart + op
  /\ run.constantCurrent = functionList[i].constantIndexStart + const

\* C11: break semantics.  The Jump compiled for a `break` of loop N, once
\* executed, leaves both cursors at the exit point of loop N: the first op
\* after the loop's `end` and the constant that op reads first; it lands
\* neither in an outer loop's exit nor back inside N.
BreakLeavesInnermostLoop ==
  \A i \in 1..Len(functionList) : \A b \in functionList[i].breaks :
    Executed("Jump", i, b.op) =>
      \E l \in functionList[i].loops :
        l.id = b.loop /\ CursorsAt(i, l.exitOp, l.exitConst)

\* C12: break outside a loop.  A `break` is accepted (its Jump is emitted
\* and its placeholder pair recorded) exactly when it stands in the body of
\* a for or while loop of the function being compiled; a `break` anywhere
\* else is reported as a compile error and emits no op and no constant.
BreakOnlyInsideLoops ==
  phase # "Compile" =>
    \A b \in compiler.breakLog :
      /\ b.accepted <=> b.inLoop
      /\ ~b.accepted => (b.error /\ b.silent)

\* C13: top level.  While the compiler context is top level, a declaration
\* of any form other than `class` and `func` (var, final, break, assert and
\* every statement form) is reported as a compile error and emits no op and
\* no constant.
TopLevelOnlyFunctionsAndClasses ==
  phase # "Compile" =>
    \A d \in compiler.topLevelLog : d.error /\ d.silent

\* The value the op just executed found on top of the value stack.
TestedValue == Last(history.before.valueStack)

\* C14: if / else-if / else.  In every chain the JumpIfFalse of a condition
\* that is true goes on to the branch body right behind it, and the Jump at
\* the end of that body leaves the chain, so that no later condition is
\* evaluated and no other body runs; a condition that is false goes to what
\* follows `else` (the next condition or the else body) or, without one, out
\* of the chain.  The chain is left at the first op after its `end`, with
\* the constant cursor at that op's constants.
IfChainRunsOneBranch ==
  \A i \in 1..Len(functionList) : \A c \in functionList[i].ifs :
    /\ Executed("JumpIfFalse", i, c.jif) =>
         IF AsBool(TestedValue)
         THEN /\ run.opCurrent = history.before.opCurrent + 1
              /\ run.constantCurrent = history.before.constantCurrent + 2
         ELSE IF c.endJump # -1
         THEN CursorsAt(i, c.elseOp, c.elseConst)
         ELSE CursorsAt(i, c.exitOp, c.exitConst)
    /\ Executed("Jump", i, c.endJump) => CursorsAt(i, c.exitOp, c.exitConst)

\* C15: while.  The JumpIfFalse of the condition of `while c: body end`
\* goes on to the body when c is true and to the first op after the loop
\* when c is false, and the Jump that ends the body goes back to the loop
\* top: the same op and the same constant every time, so that c is
\* evaluated again before every iteration.
WhileLoopSemantics ==
  \A i \in 1..Len(functionList) : \A w \in functionList[i].whiles :
    /\ Executed("JumpIfFalse", i, w.jif) =>
         IF AsBool(TestedValue)
         THEN /\ run.opCurrent = history.before.opCurrent + 1
              /\ run.constantCurrent = history.before.constantCurrent + 2
         ELSE CursorsAt(i, w.exitOp, w.exitConst)
    /\ Executed("Jump", i, w.back) => CursorsAt(i, w.top, w.topConst)

\* The values lo, lo + step, ... that are less than hi.
RECURSIVE RangeValues(_, _, _)
RangeValues(lo, hi, step) ==
  IF lo >= hi THEN <<>> ELSE <<lo>> \o RangeValues(lo + step, hi, step)

\* The file is one of ForPrograms; its bounds and step, read off its tokens.
IsForProgram == tokens \in {Lex(p) : p \in ForPrograms}
ForLo == tokens[9].val
ForHi == tokens[11].val
ForStep == IF tokens[12].type = "By" THEN tokens[13].val ELSE 1

\* The integers printed so far.
Printed == [k \in DOMAIN output |-> output[k].v]

OpExecuted == history.op \notin {"None", "Undefined"}

\* The op just executed set the constant cursor instead of advancing it: a
\* Jump, a JumpIfFalse that jumped, a Return, a Call that entered its callee.
Transferred ==
  \/ history.op \in {"Jump", "Return"}
  \/ history.op = "JumpIfFalse" /\ ~AsBool(TestedValue)
  \/ history.op = "Call" /\ phase = "Run"

\* The op just executed was a Call of a function that is not in the table.
UnknownCallee ==
  /\ history.op = "Call"
  /\ FunctionIndex(functionList,
                   fullConstantList[history.before.constantCurrent + 1].v) = 0

\* By how much the op just executed moved the constant cursor.
CursorAdvance == run.constantCurrent - history.before.constantCurrent

Linked == phase \in {"Start", "Run"}

\* The lengths of the op lists, and of the constant lists, of the first n
\* functions together.
RECURSIVE TotalOps(_)
TotalOps(n) == IF n = 0 THEN 0 ELSE TotalOps(n - 1) + Len(functionList[n].ops)
RECURSIVE TotalConstants(_)
TotalConstants(n) ==
  IF n = 0 THEN 0 ELSE TotalConstants(n - 1) + Len(functionList[n].consts)

\* [start, start + len) and [start2, start2 + len2) have nothing in common.
Apart(start, len, start2, len2) == start + len <= start2 \/ start2 + len2 <= start

\* C19: linking layout.  Once the functions are combined, main starts at
\* offset 0 of both global lists; the slices of the global op list and
\* constant list that start at a function's opIndexStart and
\* constantIndexStart are that function's own op list and constant list; no
\* two functions overlap and the image holds nothing else.
LinkingLayout ==
  Linked =>
    LET fns == 1..Len(functionList)
        main == functionList[FunctionIndex(functionList, Hash("main"))]
    IN /\ main.opIndexStart = 0 /\ main.constantIndexStart = 0
       /\ \A i \in fns :
            LET f == functionList[i]
            IN /\ f.opIndexStart + Len(f.ops) <= Len(fullOpList)
               /\ f.constantIndexStart + Len(f.consts) <= Len(fullConstantList)
               /\ SubSeq(fullOpList, f.opIndexStart + 1,
                         f.opIndexStart + Len(f.ops)) = f.ops
               /\ SubSeq(fullConstantList, f.constantIndexStart + 1,
                         f.constantIndexStart + Len(f.consts)) = f.consts
       /\ \A i, j \in fns :
            i # j =>
              /\ Apart(functionList[i].opIndexStart, Len(functionList[i].ops),
                       functionList[j].opIndexStart, Len(functionList[j].ops))
              /\ Apart(functionList[i].constantIndexStart, Len(functionList[i].consts),
                       functionList[j].constantIndexStart, Len(functionList[j].consts))
       /\ Len(fullOpList) = TotalOps(Len(functionList))
       /\ Len(fullConstantList) = TotalConstants(Len(functionList))

\* An image of main and two more functions, the one declared first linked
\* behind the other.
ThreeFunctionsLinked ==
  /\ Linked
  /\ Len(functionList) = 3
  /\ functionList[1].opIndexStart > functionList[2].opIndexStart
  /\ functionList[2].opIndexStart > 0

\* The op just executed was a Jump, or a JumpIfFalse that jumped, among the
\* ops of function i.
JumpedIn(i) ==
  /\ phase = "Run"
  /\ \/ history.op = "Jump"
     \/ history.op = "JumpIfFalse" /\ ~AsBool(TestedValue)
  /\ i \in FunctionsAt(history.before.opCurrent)

\* The operands of the jump just executed: its constant target and op target.
JumpOperand(n) == fullConstantList[history.before.constantCurrent + n].v

\* C20: relative jumps.  A Jump or taken JumpIfFalse among the ops of a
\* function f finds f's start offsets on top of the op-offset and
\* constant-offset stacks, sets the op cursor to f.opIndexStart + op target
\* and the constant cursor to f.constantIndexStart + constant target, and
\* lands inside f's own op range.
JumpsRelativeToExecutingFunction ==
  \A i \in 1..Len(functionList) :
    JumpedIn(i) =>
      LET f == functionList[i]
      IN /\ Last(history.before.opOffsets) = f.opIndexStart
         /\ Last(history.before.constantOffsets) = f.constantIndexStart
         /\ run.opCurrent = f.opIndexStart + JumpOperand(2)
         /\ run.constantCurrent = f.constantIndexStart + JumpOperand(1)
         /\ f.opIndexStart <= run.opCurrent
         /\ run.opCurrent < f.opIndexStart + Len(f.ops)

----------------------------------------------------------------------------
(* Errors, panic mode, and the discipline of calls and locals.             *)

\* C21 as stated: a registration under a hash that is in the function table
\* already leaves the table and the last-function marker as they were, and
\* the compiler reports "Duplicate function definitions".
DuplicateFunctionReported ==
  phase # "Compile" =>
    \A d \in compiler.duplicateLog : d.kept /\ d.error /\ d.reported

\* C21: a registration under a hash that is in the function table already
\* leaves the table and the last-function marker as they were and is a
\* compile error; "Duplicate function definitions" is reported exactly when
\* panic mode was not set by an earlier error of the same declaration.
DuplicateFunctionRejected ==
  phase # "Compile" =>
    \A d \in compiler.duplicateLog :
      d.kept /\ d.error /\ (d.reported <=> ~d.panic)

\* A second definition of a function that has ops, made after another
\* function was added, was refused and reported.
DuplicateDefinitionRefused ==
  /\ result = "CompileError"
  /\ \E d \in compiler.duplicateLog : d.reported
  /\ Len(functionList) = 2
  /\ functionList[1].ops # <<>>

\* C22: only the first error of a panic window is reported.  No diagnostic
\* is printed at an error site reached while panic mode is set, however
\* many such sites there are: the diagnostics printed are one for each time
\* panic mode was set.
FirstErrorOfPanicWindowOnly ==
  /\ compiler.errorLog.panicPrinted = 0
  /\ Len(compiler.diagnostics) = compiler.errorLog.windows

\* One error was printed and two more error sites were reached before
\* Synchronize cleared panic mode.
ErrorsSuppressedInPanic ==
  /\ result = "CompileError"
  /\ compiler.errorLog.windows = 1
  /\ compiler.errorLog.panicSites >= 2
  /\ Len(compiler.diagnostics) = 1

\* C23: whenever Synchronize returns, panic mode is cleared and the compiler
\* is at a statement boundary (the current token is the end of the file or
\* a declaration or statement keyword, or the previous token is a
\* semicolon), whatever tokens it skipped, error tokens included.
SynchronizeClearsPanicAtBoundary ==
  \A y \in compiler.syncLog : ~y.panic /\ y.boundary

\* C24: call return-value discipline.  In a file compiled without error a
\* Pop directly follows the Call op of a call exactly when nothing consumes
\* the call's value: a call that is an argument of another call, an operand
\* of an operator, or in the expression of an initialiser, an assignment, a
\* condition, print, return or assert has no Pop behind it, in an
\* expression statement too.
CallReturnValueDiscipline ==
  CompiledClean =>
    \A k \in compiler.callLog :
      k.popped <=> ~(k.nested \/ k.operand \/ k.context)

\* C25: function-scope locals are released on return.  After a Call and the
\* Return that answers it the locals vector is as long as it was right
\* before the Call: the slots of the callee's parameters and of the locals
\* declared in its body are gone.
LocalsReleasedOnReturn ==
  \A x \in history.returned : x.localsList = x.call.localsList

\* The file is one of UninitialisedPrograms: all it prints is a local that
\* `var x;` declared and nothing has assigned to since.
IsUninitialisedProgram == tokens \in {Lex(p) : p \in UninitialisedPrograms}

\* C26: a local declared by `var x;` reads as Null until it is first
\* assigned, wherever the declaration stands: first in main, after a call
\* has returned, in a loop body on a later iteration.
UninitialisedLocalReadsNull ==
  IsUninitialisedProgram => \A k \in DOMAIN output : output[k] = NullV

\* C27: truthiness of a dictionary.  AsBool is false for a dictionary with
\* no entries and true for one with at least one entry, whatever was
\* inserted before.
DictionaryTruthiness ==
  DictionaryAsBool(dictionary.object) <=> dictionary.object.m_Size > 0

\* C29: the stack of break-patch lists.  In a program that compiles
\* without error, m_BreakIdxPairs is as deep after every for and while
\* statement as it was before it, and every `break` is recorded in the
\* list its innermost enclosing loop pushed.
BreakListStackBalanced ==
  CompiledClean =>
    /\ \A l \in compiler.loopLog : l.after = l.before
    /\ \A i \in 1..Len(functionList) : \A b \in functionList[i].breaks : b.list = b.loop

\* The op just executed stands in function i, and the constant cursor was
\* at the first of the operands the compiler emitted for it.
ReadOwnOperands(i) ==
  LET at == history.before.opCurrent - functionList[i].opIndexStart
  IN history.before.constantCurrent =
       functionList[i].constantIndexStart + functionList[i].operands[at + 1]

\* C30: the constant cursor never drifts.  In a program that compiled
\* without error, every executed op that pulls constants finds the constant
\* cursor at the operands the compiler emitted for that very op, on every
\* path: in straight-line code, after a jump taken or not, after a break,
\* after a Call and after a Return.
ConstantCursorInStep ==
  (CompiledClean /\ OpExecuted /\ OperandCount(history.op) > 0) =>
    \E i \in FunctionsAt(history.before.opCurrent) : ReadOwnOperands(i)

\* C31: continue mode.  For every chain of operators the compiler gives the
\* same verdict and, where it accepts, emits the same operator ops whether
\* the chain begins with an identifier (Expression goes on from the
\* identifier with skipFirst = true) or with a literal (Or with skipFirst =
\* false).
ContinueModeEquivalent ==
  (phase # "Compile" /\ tokens \in {Lex(p) : p \in ExpressionPrograms}) =>
    \A x, y \in compiler.expressionLog :
      (x.slot = 1 /\ y.slot = 2) =>
        /\ x.accepted = y.accepted
        /\ x.accepted => x.ops = y.ops

\* C32: no fall-through between functions.  In a program that compiled
\* without error, an op of a function other than main is executed only
\* while that function is the one on top of the call stack, entered by a
\* Call and not yet left by its Return: the op cursor never runs from the
\* end of one function's ops into the next function's.
NoFallThrough ==
  (CompiledClean /\ history.op # "None") =>
    \A i \in FunctionsAt(history.before.opCurrent) :
      functionList[i].name # "main" =>
        /\ Len(history.before.callStack) >= 2
        /\ Last(history.before.callStack)[2] = functionList[i].hash

\* C33: compilation terminates.  Every call of Declaration made from a
\* function, loop or if body consumes at least one token or finds the
\* current token at end-of-file, so that no body loop goes round for ever.
DeclarationConsumesToken ==
  phase # "Compile" => ~compiler.stalled /\ ~compiler.hung

\* The op the VM fetched last, whether it executed it to its end or not.
FetchedOp == fullOpList[history.before.opCurrent + 1]

\* C34: local accesses are in bounds.  In a program that compiled without
\* error, whenever LoadLocal or AssignLocal is executed, base + slot-id is
\* less than the length of the locals vector, and whenever PopLocal is
\* executed the locals vector is longer than the base offset of the current
\* frame.
LocalAccessInBounds ==
  (CompiledClean /\ history.op # "None") =>
    LET b == history.before
    IN /\ FetchedOp \in {"LoadLocal", "AssignLocal"} =>
            /\ b.constantCurrent < Len(fullConstantList)
            /\ b.localsOffsets # <<>>
            /\ Last(b.localsOffsets) + fullConstantList[b.constantCurrent + 1].v
                 < Len(b.localsList)
       /\ FetchedOp = "PopLocal" =>
            /\ b.localsOffsets # <<>>
            /\ Len(b.localsList) > Last(b.localsOffsets)

\* The four per-activation stacks of r have the same depth.
Aligned(r) ==
  /\ Len(r.opOffsets) = Len(r.callStack)
  /\ Len(r.constantOffsets) = Len(r.callStack)
  /\ Len(r.localsOffsets) = Len(r.callStack)

\* C35: the per-activation stacks stay aligned.  In a program that compiled
\* without error the call stack, the op-offset stack, the constant-offset
\* stack and the locals-offset stack have the same depth before and after
\* every op, that depth is at least 1 when an op is fetched, a Call that
\* enters its callee adds one to it and a Return takes one from it.
ActivationStacksAligned ==
  (CompiledClean /\ history.op # "None") =>
    /\ Aligned(history.before) /\ Aligned(run)
    /\ Len(history.before.callStack) >= 1
    /\ (history.op = "Call" /\ phase = "Run") =>
         Len(run.callStack) = Len(history.before.callStack) + 1
    /\ history.op = "Return" =>
         Len(run.callStack) = Len(history.before.callStack) - 1

\* C36: loop compilation leaves the context unchanged.  When ForStatement
\* or WhileStatement returns, normally or by one of its error returns,
\* m_CurrentContext has the value it had at entry.
LoopRestoresContext ==
  phase # "Compile" =>
    \A l \in compiler.loopLog : ~l.stopped => l.left = l.entered

\* C37: `return` inside a function.  The error "`return` only allowed
\* inside functions" is reported only for a `return` that is not inside any
\* function declaration; in the body of a function, at any depth and also
\* inside for and while bodies, it is not.
ReturnRefusedOnlyOutsideFunctions ==
  phase # "Compile" => \A r \in compiler.returnLog : ~r.inFunction

\* The cells of the table that are occupied.
OccupiedCells(d) == {i \in DOMAIN d.m_CellStates : d.m_CellStates[i] = "Occupied"}

\* C38: dictionary keys are unique.  No two occupied cells hold the same
\* key, the occupied cells are the cells holding a pair and m_Size counts
\* them; Insert returns true exactly when its key was absent before the
\* call, and then adds its pair and nothing else; when it returns false the
\* entries are the ones from before the call.
DictionaryKeysUnique ==
  LET d == dictionary.object
  IN /\ \A i, j \in OccupiedCells(d) : d.m_Data[i].v = d.m_Data[j].v => i = j
     /\ \A i \in DOMAIN d.m_Data : i \in OccupiedCells(d) <=> d.m_Data[i].t # "Null"
     /\ d.m_Size = Cardinality(OccupiedCells(d))
     /\ dictionary.called =>
          /\ d.returned <=> dictionary.absent
          /\ d.returned => dictionary.added
          /\ ~d.returned => dictionary.kept

\* An Insert of a key that is stored behind others of its chain, in a table
\* that has grown, has returned false.
DuplicateRefusedAfterProbe ==
  LET d == dictionary.object
  IN /\ dictionary.called /\ ~d.returned /\ d.probes > 1
     /\ Len(d.m_Data) = 2 * s_InitialCapacity
     /\ ~dictionary.object.endless
     /\ d.m_Size = MaxKey + 1

\* A probe loop of the last Insert has gone round past the end of the grown
\* table and has put the new pair into one of its first cells, behind two
\* others.
ProbeWrappedAround ==
  LET d == dictionary.object
  IN /\ dictionary.called /\ d.returned /\ d.probes >= 3
     /\ Len(d.m_Data) = 2 * s_InitialCapacity
     /\ \E i \in 1..3 : /\ i \in OccupiedCells(d)
                        /\ d.m_Data[i].v % Len(d.m_Data) = Len(d.m_Data) - 1

\* C39: dictionary probing always terminates.  Whenever Insert or Rehash
\* has started a probe loop the table had a cell that was not occupied, no
\* probe loop has gone round the whole table without finding its cell, and
\* the last one took at most as many steps as the table has cells.
ProbingTerminates ==
  LET d == dictionary.object
  IN ~d.probedFull /\ ~d.endless /\ d.probes <= Len(d.m_Data)

\* The table has grown, every key has been inserted, with both values among
\* them, one of the pairs is not in the first cell of its key, and the last
\* Insert was refused.
RoundTripAfterGrowth ==
  LET d == dictionary.object
  IN /\ Len(d.m_Data) = 2 * s_InitialCapacity
     /\ {p.key : p \in dictionary.stored} = Keys
     /\ {p.value : p \in dictionary.stored} = 1..MaxValue
     /\ \E i \in OccupiedCells(d) : Hasher(d.m_Data[i].v) % Len(d.m_Data) # i - 1
     /\ dictionary.called /\ ~d.returned

\* A key that is never inserted.
Stranger == 8 * s_InitialCapacity

\* C40: dictionary insert/get round trip.  Get of a key returns the value
\* given to the one Insert of the key that returned true, and Null for a key
\* never inserted; the table holds the pairs of these Inserts, each once.
InsertGetRoundTrip ==
  LET d == dictionary.object
  IN /\ \A p \in dictionary.stored : Get(d, p.key) = IntV(p.value)
     /\ \A key \in Keys \cup {Stranger} :
          (~\E p \in dictionary.stored : p.key = key) => Get(d, key) = NullV
     /\ Pairs(d) = dictionary.stored
     /\ Len(ToVector(d)) = Cardinality(dictionary.stored)

\* The index of the first of the arguments read so far that ends in `.gr`
\* (0: there is none), and whether an argument in front of it is in opts.
ArgsRead == cli.i - 1
FirstFile ==
  IF \E j \in 1..ArgsRead : EndsWith(cli.args[j], DotGr)
  THEN CHOOSE j \in 1..ArgsRead :
         /\ EndsWith(cli.args[j], DotGr)
         /\ \A k \in 1..(j - 1) : ~EndsWith(cli.args[k], DotGr)
  ELSE 0
GivenBeforeFile(opts) == \E j \in 1..(FirstFile - 1) : cli.args[j] \in opts

\* C28: command-line forwarding.  Reading the arguments from left to right,
\* nothing in front of the first argument that ends in `.gr` is forwarded;
\* every argument behind it (options and further `.gr` names too) is
\* appended, in order, to the arguments of the script's main, changes
\* neither the verbose nor the warnings-error setting and ends the process
\* neither with the version nor the usage nor an error.
CommandLineForwarding ==
  cli.exit # "Idle" =>
    IF FirstFile = 0
    THEN cli.graceMainArgs = <<>>
    ELSE /\ cli.graceMainArgs = SubSeq(cli.args, FirstFile + 1, ArgsRead)
         /\ cli.filePath = cli.args[FirstFile]
         /\ cli.verbose = GivenBeforeFile(OptVerbose)
         /\ cli.warningsError = GivenBeforeFile(OptWarningsError)
         /\ cli.exit \in {"None", "Compile", "FileNotFound"}

\* A file was given, then -h and another `.gr` name: both were forwarded
\* and the file is compiled.
OptionsForwardedToScript ==
  /\ cli.exit = "Compile"
  /\ Len(cli.graceMainArgs) = 2
  /\ cli.graceMainArgs[1] \in OptHelp
  /\ EndsWith(cli.graceMainArgs[2], DotGr)
  /\ ~cli.verbose

====
